---- MODULE Spec2Model ----
(***************************************************************************)
(* A model of the RsWaveform codecs: the in-memory waveform (ParentStorage *)
(* holding Storages of complex samples and a Meta mapping), the WV writer  *)
(* (wv/Save.py), the WV reader (wv/Load.py) with its full, chunked and     *)
(* meta-only loads, and the control-list bit packing                       *)
(* (wv/utility/array_to_bytes.py).                                         *)
(*                                                                         *)
(* Numbers.  A sample component x is held as the integer k with            *)
(* x = k / (SubSteps * 2^15), so that scale * x is the rational k/SubSteps *)
(* for the default scale 2^15 and np.round has ties to break.  A loaded    *)
(* sample component is held as the integer n with value n / F16Max.        *)
(* A file is the sequence of the tags written to the stream; a binary tag  *)
(* keeps its declared count and the bytes that follow its '#'.             *)
(***************************************************************************)
EXTENDS Integers, Sequences, FiniteSets, TLC

VARIABLES
    wf,     \* the waveform handed to save: a sequence of Storages
    file,   \* the stream: what save has written (and a test may have patched)
    res,    \* what the last load returned or raised
    req,    \* the (samples, offset) window of a chunked load
    pc      \* which operation comes next

vars == <<wf, file, res, req, pc>>

----------------------------------------------------------------------------
(* Bounds of the model *)

MaxSegs == 2
MaxLen == 2
SubSteps == 2

(* Program constants *)

INT16_MAX == 32767
INT16_MIN == -32768
DefaultScale == 32768
F16Significand == 2048
EmptyScale == 512
ReadChunkSize == 4096
chunk_size == 82000000
BraceClose == 125
BraceOpen == 123
SpaceByte == 32

----------------------------------------------------------------------------
(* Python values held in a Meta mapping or formatted into a tag *)

NoneV == [t |-> "None"]
Num(n) == [t |-> "num", v |-> n]
Bool(b) == [t |-> "bool", v |-> b]
Str(s) == [t |-> "str", v |-> s]
TypeTuple(s) == [t |-> "tuple", v |-> s]
Mat(m) == [t |-> "mat", v |-> m]
List(l) == [t |-> "list", v |-> l]
Dict(d) == [t |-> "dict", v |-> d]

\* bool(value): None, 0, False and "" are falsy
Truthy(x) ==
    CASE x.t = "None" -> FALSE
      [] x.t = "num" -> x.v # 0
      [] x.t = "bool" -> x.v
      [] x.t = "str" -> x.v # ""
      [] OTHER -> TRUE

\* dict.get(key, default) and dict.update(other)
Get(m, k, d) == IF k \in DOMAIN m THEN m[k] ELSE d

Update(m, other) ==
    [k \in DOMAIN m \cup DOMAIN other |->
        IF k \in DOMAIN other THEN other[k] ELSE m[k]]

Pop(m, k) == [j \in DOMAIN m \ {k} |-> m[j]]

META_WV_DEFAULTS ==
    [type |-> TypeTuple("SMU-WV"),
     copyright |-> Str("Rohde & Schwarz"),
     comment |-> Str("Created with RsWaveform"),
     clock |-> Num(1000000000),
     marker |-> Dict(<<>>),
     control_length |-> NoneV,
     control_list |-> NoneV,
     rms |-> NoneV,
     peak |-> NoneV,
     samples |-> NoneV,
     reflevel |-> NoneV]

META_IQTAR_DEFAULTS ==
    [center_frequency |-> Num(1000000000),
     comment |-> Str("Created with RsWaveform"),
     clock |-> Num(1000000000),
     scalingfactor |-> Num(1)]

\* Meta(no_defaults, **kwargs): MetaWv.__init__ then MetaIqtar.__init__, each
\* writing its defaults overlaid with kwargs into the same _items
Meta(no_defaults, kwargs) ==
    IF no_defaults
    THEN kwargs
    ELSE Update(Update(META_WV_DEFAULTS, kwargs),
                Update(META_IQTAR_DEFAULTS, kwargs))

----------------------------------------------------------------------------
(* Sequences *)

\* sum(s), halving the sequence
RECURSIVE SumSeq(_)
SumSeq(s) ==
    IF Len(s) = 0 THEN 0
    ELSE IF Len(s) = 1 THEN s[1]
    ELSE LET h == Len(s) \div 2
         IN  SumSeq(SubSeq(s, 1, h)) + SumSeq(SubSeq(s, h + 1, Len(s)))

\* the concatenation of the sequences of ss, halving the sequence
RECURSIVE Flatten(_)
Flatten(ss) ==
    IF Len(ss) = 0 THEN <<>>
    ELSE IF Len(ss) = 1 THEN ss[1]
    ELSE LET h == Len(ss) \div 2
         IN  Flatten(SubSeq(ss, 1, h)) \o Flatten(SubSeq(ss, h + 1, Len(ss)))

\* Python's s[a:b] for 0 <= a, with b clamped to len(s); 0-based, half-open
Slice(s, a, b) ==
    LET hi == IF b > Len(s) THEN Len(s) ELSE b
    IN  IF a >= hi THEN <<>> ELSE SubSeq(s, a + 1, hi)

Abs(n) == IF n < 0 THEN -n ELSE n

RECURSIVE Digits(_)
Digits(n) == IF n < 10 THEN 1 ELSE 1 + Digits(n \div 10)

----------------------------------------------------------------------------
(* Quantisation: Save._prepare_data *)

\* np.round(num / den): round half to even
RoundHalfEven(num, den) ==
    LET q == num \div den
        r == num % den
    IN  IF 2 * r < den THEN q
        ELSE IF 2 * r > den THEN q + 1
        ELSE IF q % 2 = 0 THEN q ELSE q + 1

\* the clamp of _prepare_data: real[real > max] = max; real[real < min] = min
Saturate(v) ==
    IF v > INT16_MAX THEN INT16_MAX
    ELSE IF v < INT16_MIN THEN INT16_MIN
    ELSE v

\* round(scale * x) for x = k / (SubSteps * 2^15); scale a multiple of 2^15
Quantize(k, scale) ==
    Saturate(RoundHalfEven(k * (scale \div DefaultScale), SubSteps))

\* the interleaved int16 array I0, Q0, I1, Q1, ...
prepare_data(data, scale) ==
    [j \in 1..(2 * Len(data)) |->
        IF j % 2 = 1
        THEN Quantize(data[(j + 1) \div 2].re, scale)
        ELSE Quantize(data[j \div 2].im, scale)]

\* ndarray.tobytes() of int16 values: little endian two's complement
Int16Bytes(v) == LET u == v % 65536 IN <<u % 256, u \div 256>>

ToBytes(int16s) ==
    [j \in 1..(2 * Len(int16s)) |->
        Int16Bytes(int16s[(j + 1) \div 2])[IF j % 2 = 1 THEN 1 ELSE 2]]

----------------------------------------------------------------------------
(* Control-list bit packing: wv/utility/array_to_bytes.py.  A matrix is the  *)
(* sequence of its rows; its shape is (Len(m), Len(m[1])).                   *)

NRows(m) == Len(m)
NCols(m) == IF Len(m) = 0 THEN 0 ELSE Len(m[1])

Transpose(m) == [c \in 1..NCols(m) |-> [r \in 1..NRows(m) |-> m[r][c]]]

\* np.packbits with bitorder="little"
PackBits8_Little(bits) ==
    bits[8] * 128 + bits[7] * 64 + bits[6] * 32 + bits[5] * 16
    + bits[4] * 8 + bits[3] * 4 + bits[2] * 2 + bits[1]

\* np.packbits(row of 8 bits, bitorder="big")
PackBits8(bits) ==
    bits[1] * 128 + bits[2] * 64 + bits[3] * 32 + bits[4] * 16
    + bits[5] * 8 + bits[6] * 4 + bits[7] * 2 + bits[8]

\* np.unpackbits(byte, bitorder="big")
UnpackBits8(b) ==
    <<(b \div 128) % 2, (b \div 64) % 2, (b \div 32) % 2, (b \div 16) % 2,
      (b \div 8) % 2, (b \div 4) % 2, (b \div 2) % 2, b % 2>>

\* pack_bool_array_to_bytes for a two-dimensional array with a side of 4:
\* transposed when it has 4 rows, padded with a zero sample when the sample
\* count is odd, reshaped to rows of 8 bits, each packed into a byte
pack_bool_array_to_bytes(m) ==
    LET t == IF NRows(m) = 4 THEN Transpose(m) ELSE m
        padded == IF Len(t) % 2 # 0 THEN Append(t, <<0, 0, 0, 0>>) ELSE t
        flat == Flatten(padded)
    IN  [i \in 1..(Len(padded) \div 2) |->
            PackBits8([j \in 1..8 |-> flat[8 * (i - 1) + j]])]

\* unpack_bytes_to_bool_array: the bits of all bytes, reshaped to rows of 4,
\* transposed to 4 rows, cut to the first num_samples columns
unpack_bytes_to_bool_array(packed_bytes, num_samples) ==
    LET bits == Flatten([i \in 1..Len(packed_bytes) |->
                            UnpackBits8(packed_bytes[i])])
        cols == Len(bits) \div 4
        keep == IF num_samples < cols THEN num_samples ELSE cols
    IN  [r \in 1..4 |-> [c \in 1..keep |-> bits[4 * (c - 1) + r]]]

----------------------------------------------------------------------------
(* The WV writer: wv/Save.py.  A writer step takes the stream state         *)
(* [toks, err] and appends a tag or raises; once an exception is raised the *)
(* rest of the steps are skipped and the tags already written stay.         *)

NoErr == ""
ClockError == "Clock is a mandatory parameter!"
EmptyMaxError == "zero-size array to reduction operation maximum which has no identity"
FloatNoneError == "float() argument must be a string or a real number, not 'NoneType'"

Tag(key, val) == [key |-> key, val |-> val]
Bin(count, rest) == [t |-> "bin", count |-> count, rest |-> rest]

Emit(st, tok) ==
    IF st.err # NoErr THEN st ELSE [st EXCEPT !.toks = Append(@, tok)]

Raise(st, e) == IF st.err # NoErr THEN st ELSE [st EXCEPT !.err = e]

write_type(st, data) ==
    LET type_data == Get(data.meta, "type", META_WV_DEFAULTS.type)
    IN  Emit(st, Tag("TYPE", Str(type_data.v)))

write_copyright(st, data) ==
    Emit(st, Tag("COPYRIGHT",
                 Get(data.meta, "copyright", META_WV_DEFAULTS.copyright)))

write_comment(st, data) ==
    Emit(st, Tag("COMMENT", Get(data.meta, "comment", META_WV_DEFAULTS.comment)))

write_date(st) == Emit(st, Tag("DATE", Str("2026-01-01;00:00:00")))

\* peak and rms are taken from the metadata, or computed from the samples
\* when None (log10 of 0 formats as inf, the mean of no samples as nan);
\* np.max of an empty array raises
write_level_offset(st, data) ==
    LET peak == Get(data.meta, "peak", NoneV)
        rms == Get(data.meta, "rms", NoneV)
        finite == \E i \in 1..Len(data.data) :
                      data.data[i].re # 0 \/ data.data[i].im # 0
        peakv == IF peak.t = "None"
                 THEN [t |-> "calc", v |-> "peak", finite |-> finite] ELSE peak
        rmsv == IF rms.t = "None"
                THEN [t |-> "calc", v |-> "rms", finite |-> finite] ELSE rms
    IN  IF peak.t = "None" /\ Len(data.data) = 0
        THEN Raise(st, EmptyMaxError)
        ELSE Emit(st, Tag("LEVEL OFFS", List(<<rmsv, peakv>>)))

\* a writer that takes a clock of 0 for a clock
write_clock_NoneOnly(st, data) ==
    LET clock == Get(data.meta, "clock", NoneV)
    IN  IF clock.t = "None"
        THEN Raise(st, ClockError)
        ELSE Emit(st, Tag("CLOCK", clock))

write_clock(st, data) ==
    LET clock == Get(data.meta, "clock", NoneV)
    IN  IF ~Truthy(clock)
        THEN Raise(st, ClockError)
        ELSE Emit(st, Tag("CLOCK", clock))

write_samples(st, data) == Emit(st, Tag("SAMPLES", Num(Len(data.data))))

write_reflevel(st, data) ==
    LET reflevel == Get(data.meta, "reflevel", NoneV)
    IN  IF Truthy(reflevel) THEN Emit(st, Tag("REFLEVEL", reflevel)) ELSE st

write_control_length(st, data) ==
    LET control_length == Get(data.meta, "control_length", NoneV)
    IN  IF ~Truthy(control_length)
        THEN st
        ELSE Emit(st, Tag("CONTROL LENGTH", control_length))

write_control_list(st, data) ==
    LET control_list == Get(data.meta, "control_list", NoneV)
        list_bytes == pack_bool_array_to_bytes(control_list.v)
    IN  IF control_list.t = "None"
        THEN st
        ELSE Emit(st, Tag("CONTROL LIST WIDTH4",
                          Bin(Len(list_bytes) + 1,
                              list_bytes \o <<BraceClose>>)))

MarkerListKeys ==
    {"marker_list_1", "marker_list_2", "marker_list_3", "marker_list_4"}

MarkerTagKey ==
    [marker_list_1 |-> "MARKER LIST 1", marker_list_2 |-> "MARKER LIST 2",
     marker_list_3 |-> "MARKER LIST 3", marker_list_4 |-> "MARKER LIST 4"]

\* the marker mapping is a sequence of [key, entries] in insertion order; one
\* tag per key that starts with marker_list, entries in the order they have
RECURSIVE write_marker_keys(_, _)
write_marker_keys(st, markers) ==
    IF markers = <<>> THEN st
    ELSE LET m == Head(markers)
             nxt == IF m.key \in MarkerListKeys
                    THEN Emit(st, Tag(MarkerTagKey[m.key], List(m.entries)))
                    ELSE st
         IN  write_marker_keys(nxt, Tail(markers))

write_marker(st, data) ==
    write_marker_keys(st, Get(data.meta, "marker", Dict(<<>>)).v)

write_empty_tag(st, rand_empty) ==
    Emit(st, Tag("EMPTYTAG",
                 Bin(rand_empty + 1,
                     [i \in 1..rand_empty |-> SpaceByte] \o <<BraceClose>>)))

\* the block loop of _write_waveform: block b holds int16_data[start:stop]
WaveformBlocks(int16_data, cs) ==
    LET size == Len(int16_data)
        number_blocks == (size + cs - 1) \div cs
        stop(b) == IF b * cs > size - 1 THEN size ELSE b * cs
    IN  Flatten([b \in 1..number_blocks |->
                    ToBytes(Slice(int16_data, (b - 1) * cs, stop(b)))])

write_waveform(st, int16_data, encryption_flag) ==
    Emit(st, Tag(IF Truthy(encryption_flag) THEN "WWAVEFORM" ELSE "WAVEFORM",
                 Bin(Len(int16_data) * 2 + 1,
                     WaveformBlocks(int16_data, chunk_size) \o <<BraceClose>>)))

\* a writer that looks at the clock before it writes anything
write_single_ClockFirst(storages, scale, rand_empty) ==
    LET s0 == storages[1]
        int16_data == prepare_data(s0.data, scale)
        st0 == [toks |-> <<>>, err |-> NoErr]
        checked == write_clock(st0, s0)
        st1 == write_type([st0 EXCEPT !.err = checked.err], s0)
        st2 == write_copyright(st1, s0)
        st3 == write_comment(st2, s0)
        st4 == write_level_offset(st3, s0)
        st5 == write_date(st4)
        st6 == write_clock(st5, s0)
        st7 == write_samples(st6, s0)
        st8 == write_reflevel(st7, s0)
        st9 == write_control_length(st8, s0)
        st10 == write_control_list(st9, s0)
        st11 == write_marker(st10, s0)
        st12 == write_empty_tag(st11, rand_empty)
    IN  write_waveform(st12, int16_data,
                       Get(s0.meta, "encryption_flag", Bool(FALSE)))

\* a writer that puts the marker lists behind the empty tag
write_single_MarkerLast(storages, scale, rand_empty) ==
    LET s0 == storages[1]
        int16_data == prepare_data(s0.data, scale)
        st0 == [toks |-> <<>>, err |-> NoErr]
        st1 == write_type(st0, s0)
        st2 == write_copyright(st1, s0)
        st3 == write_comment(st2, s0)
        st4 == write_level_offset(st3, s0)
        st5 == write_date(st4)
        st6 == write_clock(st5, s0)
        st7 == write_samples(st6, s0)
        st8 == write_reflevel(st7, s0)
        st9 == write_control_length(st8, s0)
        st10 == write_control_list(st9, s0)
        st11 == write_empty_tag(st10, rand_empty)
        st12 == write_marker(st11, s0)
    IN  write_waveform(st12, int16_data,
                       Get(s0.meta, "encryption_flag", Bool(FALSE)))

\* Save._write: the single-segment file
write_single(storages, scale, rand_empty) ==
    LET s0 == storages[1]
        int16_data == prepare_data(s0.data, scale)
        st0 == [toks |-> <<>>, err |-> NoErr]
        st1 == write_type(st0, s0)
        st2 == write_copyright(st1, s0)
        st3 == write_comment(st2, s0)
        st4 == write_level_offset(st3, s0)
        st5 == write_date(st4)
        st6 == write_clock(st5, s0)
        st7 == write_samples(st6, s0)
        st8 == write_reflevel(st7, s0)
        st9 == write_control_length(st8, s0)
        st10 == write_control_list(st9, s0)
        st11 == write_marker(st10, s0)
        st12 == write_empty_tag(st11, rand_empty)
    IN  write_waveform(st12, int16_data,
                       Get(s0.meta, "encryption_flag", Bool(FALSE)))

----------------------------------------------------------------------------
(* The multi-segment writer: Save._write_mwv *)

SegmentCommentKey ==
    <<"MWV_SEGMENT0_COMMENT", "MWV_SEGMENT1_COMMENT", "MWV_SEGMENT2_COMMENT",
      "MWV_SEGMENT3_COMMENT", "MWV_SEGMENT4_COMMENT">>

\* the loop "tmp_storage.data = np.append(d.data, tmp_storage.data)" over the
\* segments in order, starting from the empty array
RECURSIVE mwv_concat(_, _)
mwv_concat(storages, acc) ==
    IF storages = <<>> THEN acc
    ELSE mwv_concat(Tail(storages), Head(storages).data \o acc)

write_mwv_segment_count(st, storages) ==
    Emit(st, Tag("MWV_SEGMENT_COUNT", Num(Len(storages))))

write_mwv_segment_length(st, storages) ==
    Emit(st, Tag("MWV_SEGMENT_LENGTH",
                 List([i \in 1..Len(storages) |-> Num(Len(storages[i].data))])))

write_mwv_segment_start(st, storages) ==
    Emit(st, Tag("MWV_SEGMENT_START",
                 List([i \in 1..Len(storages) |->
                        Num(SumSeq([j \in 1..(i - 1) |->
                                      Len(storages[j].data)]))])))

write_mwv_clock_mode(st) == Emit(st, Tag("MWV_SEGMENT_CLOCK_MODE", Str("UNCHANGED")))

write_mwv_level_mode(st) == Emit(st, Tag("MWV_SEGMENT_LEVEL_MODE", Str("UNCHANGED")))

\* float(data.meta.get("clock", 0)): 0 for an absent key, TypeError for None
ClockAsFloat(meta) ==
    LET c == Get(meta, "clock", Num(0)) IN IF c.t = "num" THEN c.v ELSE 0

RECURSIVE MaxClock(_, _)
MaxClock(storages, max_clock) ==
    IF storages = <<>> THEN max_clock
    ELSE LET c == ClockAsFloat(Head(storages).meta)
         IN  MaxClock(Tail(storages), IF c > max_clock THEN c ELSE max_clock)

write_mwv_clock(st, storages) ==
    IF \E i \in 1..Len(storages) : Get(storages[i].meta, "clock", Num(0)).t = "None"
    THEN Raise(st, FloatNoneError)
    ELSE Emit(Emit(st, Tag("CLOCK", Num(MaxClock(storages, 0)))),
              Tag("MWV_SEGMENT_CLOCK",
                  List([i \in 1..Len(storages) |->
                         Get(storages[i].meta, "clock", NoneV)])))

write_mwv_segment_level_offs(st, storages) ==
    Emit(st, Tag("MWV_SEGMENT_LEVEL_OFFS",
                 List([j \in 1..(2 * Len(storages)) |->
                        IF j % 2 = 1
                        THEN Get(storages[(j + 1) \div 2].meta, "rms", Num(0))
                        ELSE Get(storages[j \div 2].meta, "peak", Num(0))])))

RECURSIVE write_mwv_segment_comment(_, _, _)
write_mwv_segment_comment(st, storages, index) ==
    IF index >= Len(storages) THEN st
    ELSE write_mwv_segment_comment(
             Emit(st, Tag(SegmentCommentKey[index + 1],
                          Get(storages[index + 1].meta, "comment", NoneV))),
             storages, index + 1)

write_mwv_segment_files(st, storages) ==
    LET with == SelectSeq(storages, LAMBDA d : "filename" \in DOMAIN d.meta)
    IN  IF with = <<>> THEN st
        ELSE Emit(st, Tag("MWV_SEGMENT_FILES",
                          List([i \in 1..Len(with) |-> with[i].meta.filename])))

\* Save._write_mwv: the multi-segment file
write_mwv(storages, scale, rand_empty) ==
    LET tmp_storage ==
            [data |-> mwv_concat(storages, <<>>),
             meta |-> [Update(Meta(FALSE, <<>>), storages[1].meta)
                          EXCEPT !["type"] = Str("SMU-MWV")]]
        int16_data == prepare_data(tmp_storage.data, scale)
        st0 == [toks |-> <<>>, err |-> NoErr]
        st1 == write_type(st0, tmp_storage)
        st2 == write_copyright(st1, tmp_storage)
        st3 == write_date(st2)
        st4 == write_samples(st3, tmp_storage)
        st5 == write_reflevel(st4, tmp_storage)
        st6 == write_mwv_segment_count(st5, storages)
        st7 == write_mwv_segment_length(st6, storages)
        st8 == write_mwv_segment_start(st7, storages)
        st9 == write_mwv_clock_mode(st8)
        st10 == write_mwv_level_mode(st9)
        st11 == write_mwv_clock(st10, storages)
        st12 == write_mwv_segment_level_offs(st11, storages)
        st13 == write_mwv_segment_comment(st12, storages, 0)
        st14 == write_mwv_segment_files(st13, storages)
        st15 == write_empty_tag(st14, rand_empty)
    IN  write_waveform(st15, int16_data,
                       Get(tmp_storage.meta, "encryption", Bool(FALSE)))

\* Save.save
save(storages, scale, rand_empty) ==
    IF Len(storages) = 1
    THEN write_single(storages, scale, rand_empty)
    ELSE write_mwv(storages, scale, rand_empty)

----------------------------------------------------------------------------
(* The bytes of a file.  The text of a tag is held as its value, not as      *)
(* characters; where byte positions matter a tag is rendered with its braces *)
(* and binary payload as they are and a letter for every other character.    *)

\* the length of a value formatted into a tag
RECURSIVE ValLen(_)
ValLen(x) ==
    CASE x.t = "num" -> Digits(Abs(x.v)) + (IF x.v < 0 THEN 1 ELSE 0)
      [] x.t = "str" -> Len(x.v)
      [] x.t = "None" -> 4
      [] x.t = "calc" -> 8
      [] x.t = "entry" -> Digits(Abs(x.v[1])) + 1 + Digits(Abs(x.v[2]))
      [] x.t = "list" ->
            SumSeq([i \in 1..Len(x.v) |-> ValLen(x.v[i])])
            + (IF Len(x.v) = 0 THEN 0 ELSE Len(x.v) - 1)
      [] OTHER -> 1

\* "{KEY-N:#" of a binary tag and "{KEY:" of a text tag
HeadLen(tok) ==
    IF tok.val.t = "bin"
    THEN 1 + Len(tok.key) + 1 + Digits(tok.val.count) + 2
    ELSE 1 + Len(tok.key) + 1

Render(tok) ==
    <<BraceOpen>> \o [i \in 1..(HeadLen(tok) - 1) |-> 65]
    \o (IF tok.val.t = "bin"
        THEN tok.val.rest
        ELSE [i \in 1..ValLen(tok.val) |-> 65] \o <<BraceClose>>)

TokLen(tok) ==
    HeadLen(tok)
    + (IF tok.val.t = "bin" THEN Len(tok.val.rest) ELSE ValLen(tok.val) + 1)

RenderAll(toks) == Flatten([i \in 1..Len(toks) |-> Render(toks[i])])

\* the index of the first tag with one of the keys, 0 when there is none
FirstTag(toks, keys) ==
    IF \E i \in 1..Len(toks) : toks[i].key \in keys
    THEN CHOOSE i \in 1..Len(toks) :
            /\ toks[i].key \in keys
            /\ \A j \in 1..(i - 1) : toks[j].key \notin keys
    ELSE 0

----------------------------------------------------------------------------
(* The WV reader: wv/Load.py *)

KeyErrorSamples == "KeyError: 'samples'"
KeyErrorSegmentLength == "KeyError: 'mwv_segment_length'"
NoWaveformTag == "Waveform does not contain waveform tag."
NoWaveformData == "No waveform data availabe."

\* the messages of _extract_binary_tags, which name the tag
Inconclusive(tag) ==
    CASE tag = "WAVEFORM" ->
            "Could not extract WAVEFORM data. Provided byte count inconclusive."
      [] tag = "WWAVEFORM" ->
            "Could not extract WWAVEFORM data. Provided byte count inconclusive."
      [] OTHER ->
            "Could not extract CONTROL LIST WIDTH4 data. Provided byte count inconclusive."

Malformed(tag) ==
    CASE tag = "WAVEFORM" ->
            "Could not extract WAVEFORM data. Malformed WAVEFORM section because there is no '}' after N binary samples."
      [] tag = "WWAVEFORM" ->
            "Could not extract WWAVEFORM data. Malformed WWAVEFORM section because there is no '}' after N binary samples."
      [] OTHER ->
            "Could not extract CONTROL LIST WIDTH4 data. Malformed CONTROL LIST WIDTH4 section because there is no '}' after N binary samples."

BufferSizeError == "buffer size must be a multiple of element size"
BroadcastError == "operands could not be broadcast together"
IndexError == "list index out of range"
ChunkMwvError == "feature only supported for non multi segment wv"
ChunkSanityError == "Sanity problem. Sample setting and actual sample count does not match."

\* Load._get_regex_tokens with the group names of _create_regex_pattern
RegexTokens ==
    ("TYPE" :> "type") @@ ("COPYRIGHT" :> "copyright")
    @@ ("COMMENT" :> "comment") @@ ("DATE" :> "date")
    @@ ("SAMPLES" :> "samples") @@ ("CLOCK" :> "clock")
    @@ ("REFLEVEL" :> "reflevel") @@ ("VECTOR MAX" :> "vector_max")
    @@ ("LEVEL OFFS" :> "level_offs")
    @@ ("CONTROL LENGTH" :> "control_length")
    @@ ("MWV_SEGMENT_LENGTH" :> "mwv_segment_length")
    @@ ("MWV_SEGMENT_COUNT" :> "mwv_segment_count")
    @@ ("MWV_SEGMENT_CLOCK" :> "mwv_segment_clock")
    @@ ("MWV_SEGMENT_LEVEL_OFFS" :> "mwv_segment_level_offs")
    @@ ("MARKER LIST 1" :> "marker_list_1") @@ ("MARKER LIST 2" :> "marker_list_2")
    @@ ("MARKER LIST 3" :> "marker_list_3") @@ ("MARKER LIST 4" :> "marker_list_4")
    @@ ("MARKER MODE 1" :> "marker_mode_1") @@ ("MARKER MODE 2" :> "marker_mode_2")
    @@ ("MARKER MODE 3" :> "marker_mode_3") @@ ("MARKER MODE 4" :> "marker_mode_4")

\* a formatted number is made of digits, '.', 'e', '+', '-'; inf and nan are not
IsNumberText(x) == x.t = "num" \/ (x.t = "calc" /\ x.finite)

\* texts with a character outside [\w \.], and the empty text
NonWordTexts == {"seg-1", ""}

\* the pattern [\w \.]+ of COMMENT and MWV_SEGMENTi_COMMENT
WordText(x) == x.t = "None" \/ (x.t = "str" /\ x.v \notin NonWordTexts)

\* whether the value of a tag matches the pattern of its key
RegexMatches(key, x) ==
    CASE key \in {"SAMPLES", "CLOCK", "REFLEVEL", "VECTOR MAX", "CONTROL LENGTH",
                  "MWV_SEGMENT_COUNT"} -> IsNumberText(x)
      [] key = "LEVEL OFFS" ->
            x.t = "list" /\ Len(x.v) = 2 /\ \A i \in 1..2 : IsNumberText(x.v[i])
      [] key \in {"MWV_SEGMENT_LENGTH", "MWV_SEGMENT_CLOCK",
                  "MWV_SEGMENT_LEVEL_OFFS"} ->
            x.t = "list" /\ Len(x.v) > 0
            /\ \A i \in 1..Len(x.v) : IsNumberText(x.v[i])
      [] key \in {"MARKER LIST 1", "MARKER LIST 2", "MARKER LIST 3",
                  "MARKER LIST 4"} -> x.t = "list" /\ Len(x.v) > 0
      [] key = "COMMENT" -> WordText(x)
      [] OTHER -> x.t \in {"str", "None"}

\* Load._split_data_via_tags_meta: the last matching tag of each key wins
RECURSIVE split_data_via_tags_meta(_)
split_data_via_tags_meta(toks) ==
    IF toks = <<>> THEN <<>>
    ELSE LET tok == toks[Len(toks)]
             before == split_data_via_tags_meta(SubSeq(toks, 1, Len(toks) - 1))
         IN  IF tok.val.t # "bin" /\ tok.key \in DOMAIN RegexTokens
                /\ RegexMatches(tok.key, tok.val)
             THEN Update(before, (RegexTokens[tok.key] :> tok.val))
             ELSE before

\* a reader that takes the declared count of bytes without a look at the byte
\* that follows them
extract_binary_tags_Unchecked(toks, limit, tag, partial_read) ==
    LET i == FirstTag(toks, {tag})
        tok == toks[i]
        count == tok.val.count
        all == tok.val.rest \o RenderAll(SubSeq(toks, i + 1, Len(toks)))
        head == SumSeq([j \in 1..(i - 1) |-> TokLen(toks[j])]) + HeadLen(tok)
        after == Slice(all, 0, limit - head)
    IN  IF i = 0 THEN [err |-> NoErr, found |-> FALSE, binary |-> <<>>]
        ELSE IF partial_read
        THEN [err |-> NoErr, found |-> TRUE, binary |-> after]
        ELSE IF count > Len(after)
        THEN [err |-> Inconclusive(tag), found |-> TRUE, binary |-> <<>>]
        ELSE [err |-> NoErr, found |-> TRUE,
              binary |-> Slice(after, 0, count - 1)]

\* Load._extract_binary_tags on the tags toks, cut to the first limit bytes of
\* their rendering: None when the tag is absent, else the payload or an error
extract_binary_tags(toks, limit, tag, partial_read) ==
    LET i == FirstTag(toks, {tag})
        tok == toks[i]
        count == tok.val.count
        all == tok.val.rest \o RenderAll(SubSeq(toks, i + 1, Len(toks)))
        head == SumSeq([j \in 1..(i - 1) |-> TokLen(toks[j])]) + HeadLen(tok)
        after == Slice(all, 0, limit - head)
    IN  IF i = 0 THEN [err |-> NoErr, found |-> FALSE, binary |-> <<>>]
        ELSE IF partial_read
        THEN [err |-> NoErr, found |-> TRUE, binary |-> after]
        ELSE IF count > Len(after)
        THEN [err |-> Inconclusive(tag), found |-> TRUE, binary |-> <<>>]
        ELSE IF after[count] # BraceClose
        THEN [err |-> Malformed(tag), found |-> TRUE, binary |-> <<>>]
        ELSE [err |-> NoErr, found |-> TRUE,
              binary |-> Slice(after, 0, count - 1)]

\* Load._extract_waveform with Load._is_waveform_encrypted
extract_waveform(toks, limit, partial_read) ==
    LET i == FirstTag(toks, {"WAVEFORM", "WWAVEFORM"})
        encryption_flag == toks[i].key = "WWAVEFORM"
        iq == extract_binary_tags(toks, limit, toks[i].key, partial_read)
    IN  IF i = 0
        THEN [err |-> NoWaveformTag, binary |-> <<>>, encryption_flag |-> FALSE]
        ELSE [err |-> iq.err, binary |-> iq.binary,
              encryption_flag |-> encryption_flag]

----------------------------------------------------------------------------
(* Dequantisation: Load._extract_pairs, np.frombuffer, Load._fix_to_double *)

\* Load._extract_pairs: two bytes at every fourth index of the window
extract_pairs(buf, start, offset, length) ==
    LET whole == length * 4 = 0 \/ length * 4 > Len(buf)
        actual_length == IF whole THEN Len(buf) ELSE length * 4
        offset0 == IF whole THEN 0 ELSE offset * 4
        actual_offset == IF actual_length + offset0 > Len(buf)
                         THEN Len(buf) - actual_length
                         ELSE offset0
        first == start * 2 + actual_offset
        stop == actual_offset + actual_length
        n == IF stop > first THEN (stop - first + 3) \div 4 ELSE 0
    IN  Flatten([j \in 1..n |->
                    Slice(buf, first + 4 * (j - 1), first + 4 * (j - 1) + 2)])

\* np.frombuffer(dtype=int16) of an even number of bytes
FromBuffer(bytes) ==
    [j \in 1..(Len(bytes) \div 2) |->
        LET u == bytes[2 * j - 1] + 256 * bytes[2 * j]
        IN  IF u > INT16_MAX THEN u - 65536 ELSE u]

\* the distance between neighbouring float16 values at the magnitude a
RECURSIVE F16Spacing(_)
F16Spacing(a) == IF a < F16Significand THEN 1 ELSE 2 * F16Spacing(a \div 2)

\* np.float16(v) for an integer v: nearest value, ties to the even significand
RoundF16(v) ==
    LET a == Abs(v)
        q == F16Spacing(a)
        r == RoundHalfEven(a, q) * q
    IN  IF v < 0 THEN -r ELSE r

\* Load._fix_to_double divides float16(values) by maximum = float16(INT16_MAX);
\* a converted value is held as its numerator over F16Max
F16Max == RoundF16(INT16_MAX)

fix_to_double(values) == [j \in 1..Len(values) |-> RoundF16(values[j])]

\* i_values + 1j * q_values with numpy's broadcasting of a length-1 operand
Combine(i_values, q_values) ==
    IF Len(i_values) = Len(q_values)
    THEN [err |-> NoErr,
          iq |-> [j \in 1..Len(i_values) |->
                    [re |-> i_values[j], im |-> q_values[j]]]]
    ELSE IF Len(i_values) = 1
    THEN [err |-> NoErr,
          iq |-> [j \in 1..Len(q_values) |->
                    [re |-> i_values[1], im |-> q_values[j]]]]
    ELSE IF Len(q_values) = 1
    THEN [err |-> NoErr,
          iq |-> [j \in 1..Len(i_values) |->
                    [re |-> i_values[j], im |-> q_values[1]]]]
    ELSE [err |-> BroadcastError, iq |-> <<>>]

\* Load._extract_iq_chunks; Load._extract_iq is the case length = offset = 0
extract_iq_chunks(iq_bytes, nr_samples, samples_offset) ==
    LET i_bytes == extract_pairs(iq_bytes, 0, samples_offset, nr_samples)
        q_bytes == extract_pairs(iq_bytes, 1, samples_offset, nr_samples)
    IN  IF Len(iq_bytes) = 0
        THEN [err |-> NoWaveformData, iq |-> <<>>]
        ELSE IF Len(i_bytes) % 2 # 0 \/ Len(q_bytes) % 2 # 0
        THEN [err |-> BufferSizeError, iq |-> <<>>]
        ELSE Combine(fix_to_double(FromBuffer(i_bytes)),
                     fix_to_double(FromBuffer(q_bytes)))

extract_iq(iq_bytes) == extract_iq_chunks(iq_bytes, 0, 0)

----------------------------------------------------------------------------
(* Metadata of a loaded segment: Load._extract_meta, _handle_mwv_meta_data *)

SegmentCommentName ==
    <<"mwv_segment0_comment", "mwv_segment1_comment", "mwv_segment2_comment",
      "mwv_segment3_comment", "mwv_segment4_comment">>

SegmentCommentNames == {SegmentCommentName[i] : i \in 1..Len(SegmentCommentName)}

\* text read back as a string: a None that was formatted reads "None"
AsText(x) == IF x.t = "None" THEN Str("None") ELSE x

\* Load._extract_mwv_comments: the comment tags of segments 0..count-1 that
\* stand before the payload tag
RECURSIVE extract_mwv_comments(_, _, _)
extract_mwv_comments(mwv_segment_count, tags, toks) ==
    IF toks = <<>> THEN tags
    ELSE LET tok == toks[Len(toks)]
             before == extract_mwv_comments(mwv_segment_count, tags,
                                            SubSeq(toks, 1, Len(toks) - 1))
             idx == CHOOSE i \in 1..Len(SegmentCommentKey) :
                        SegmentCommentKey[i] = tok.key
         IN  IF /\ \E i \in 1..Len(SegmentCommentKey) :
                        SegmentCommentKey[i] = tok.key
                /\ idx <= mwv_segment_count
                /\ WordText(tok.val)
             THEN Update(before, (SegmentCommentName[idx] :> tok.val))
             ELSE before

\* the keys _extract_meta does not copy: level_offs becomes rms and peak, the
\* marker lists go into the marker mapping, foreign segment comments are dropped
MetaSkipped(tags, index) ==
    {k \in DOMAIN tags :
        \/ k = "level_offs"
        \/ k \in MarkerListKeys
        \/ (k \in SegmentCommentNames /\ k # SegmentCommentName[index + 1])}

\* the typed value _extract_meta stores for a key
MetaValue(k, x, index) ==
    CASE k = "mwv_segment_level_offs" ->
            [t |-> "pair", v |-> <<x.v[2 * index + 1], x.v[2 * index + 2]>>]
      [] k \in {"mwv_segment_clock", "mwv_segment_length"} -> x.v[index + 1]
      [] k \in {"encryption_flag", "control_list"} -> x
      [] OTHER -> AsText(x)

extract_meta(tags, index) ==
    LET short ==
            \/ /\ "mwv_segment_level_offs" \in DOMAIN tags
               /\ Len(tags["mwv_segment_level_offs"].v) < 2 * index + 2
            \/ \E k \in {"mwv_segment_clock", "mwv_segment_length"} :
                   k \in DOMAIN tags /\ Len(tags[k].v) < index + 1
        copied == [k \in DOMAIN tags \ MetaSkipped(tags, index) |->
                      MetaValue(k, tags[k], index)]
        levels == IF "level_offs" \in DOMAIN tags
                  THEN [rms |-> tags["level_offs"].v[1],
                        peak |-> tags["level_offs"].v[2]]
                  ELSE <<>>
        marker == SelectSeq(
                      <<"marker_list_1", "marker_list_2", "marker_list_3",
                        "marker_list_4">>,
                      LAMBDA k : k \in DOMAIN tags)
    IN  IF short
        THEN [err |-> IndexError, meta |-> <<>>]
        ELSE [err |-> NoErr,
              meta |-> Update(Update(copied, levels),
                              [marker |-> Dict([i \in 1..Len(marker) |->
                                    [key |-> marker[i],
                                     entries |-> tags[marker[i]].v]])])]

handle_mwv_meta_data(meta, index) ==
    LET m1 == IF "mwv_segment_clock" \in DOMAIN meta
              THEN Update(Pop(meta, "mwv_segment_clock"),
                          [clock |-> meta["mwv_segment_clock"]])
              ELSE meta
        m2 == IF "mwv_segment_level_offs" \in DOMAIN m1
              THEN Update(Pop(m1, "mwv_segment_level_offs"),
                          [rms |-> m1["mwv_segment_level_offs"].v[1],
                           peak |-> m1["mwv_segment_level_offs"].v[2]])
              ELSE m1
        m3 == IF "mwv_segment_length" \in DOMAIN m2
              THEN Update(Pop(m2, "mwv_segment_length"),
                          [samples |-> m2["mwv_segment_length"]])
              ELSE m2
        own == SegmentCommentName[index + 1]
    IN  IF own \in DOMAIN m3
        THEN Update(Pop(m3, own), [comment |-> m3[own]])
        ELSE m3

----------------------------------------------------------------------------
(* Load.load, Load.load_in_chunks *)

Failed(e) == [err |-> e, storages |-> <<>>]

FileLen(toks) == SumSeq([i \in 1..Len(toks) |-> TokLen(toks[i])])

PayloadKeys == {"WAVEFORM", "WWAVEFORM"}

\* the tags that stand before the payload tag (all of them when there is none)
HeaderToks(toks) ==
    LET i == FirstTag(toks, PayloadKeys)
    IN  IF i = 0 THEN toks ELSE SubSeq(toks, 1, i - 1)

\* the control list, unpacked, when the tag is there and not empty
WithControlList(tags, cl, samples) ==
    IF cl.found /\ Len(cl.binary) > 0
    THEN Update(tags, [control_list |->
                          Mat(unpack_bytes_to_bool_array(cl.binary, samples))])
    ELSE tags

\* the segments of a full load: segment index takes
\* iq_data[sum(lengths[0:index]) : that + lengths[index]]
LoadSegments(iq_data, tags, mwv_segment_count, segment_lengths) ==
    [i \in 1..mwv_segment_count |->
        LET start_index == SumSeq(SubSeq(segment_lengths, 1, i - 1))
            end_index == segment_lengths[i] + start_index
        IN  [data |-> Slice(iq_data, start_index, end_index),
             meta |-> Meta(FALSE, handle_mwv_meta_data(
                                     extract_meta(tags, i - 1).meta, i - 1))]]

load(toks) ==
    LET tags0 == split_data_via_tags_meta(toks)
        samples == tags0["samples"].v
        mwv_segment_count == Get(tags0, "mwv_segment_count", Num(1)).v
        tags1 == IF "mwv_segment_count" \in DOMAIN tags0
                 THEN Pop(tags0, "mwv_segment_count") ELSE tags0
        w == extract_waveform(toks, FileLen(toks), FALSE)
        cl == extract_binary_tags(toks, FileLen(toks), "CONTROL LIST WIDTH4", FALSE)
        tags2 == WithControlList(
                     Update(tags1, [encryption_flag |-> Bool(w.encryption_flag)]),
                     cl, samples)
        multi == mwv_segment_count > 1
        tags3 == IF multi
                 THEN extract_mwv_comments(mwv_segment_count,
                                           Pop(tags2, "mwv_segment_length"),
                                           HeaderToks(toks))
                 ELSE tags2
        segment_lengths ==
            IF multi
            THEN [i \in 1..Len(tags2["mwv_segment_length"].v) |->
                     tags2["mwv_segment_length"].v[i].v]
            ELSE <<samples>>
        iq == extract_iq(w.binary)
    IN  IF "samples" \notin DOMAIN tags0 THEN Failed(KeyErrorSamples)
        ELSE IF w.err # NoErr THEN Failed(w.err)
        ELSE IF cl.err # NoErr THEN Failed(cl.err)
        ELSE IF multi /\ "mwv_segment_length" \notin DOMAIN tags2
        THEN Failed(KeyErrorSegmentLength)
        ELSE IF iq.err # NoErr THEN Failed(iq.err)
        ELSE IF \/ Len(segment_lengths) < mwv_segment_count
                \/ \E i \in 1..mwv_segment_count :
                       extract_meta(tags3, i - 1).err # NoErr
        THEN Failed(IndexError)
        ELSE [err |-> NoErr,
              storages |-> LoadSegments(iq.iq, tags3, mwv_segment_count,
                                        segment_lengths)]

\* Load._read_chunks followed by the read of (samples + 4) * 4 + 100 bytes:
\* how many bytes of the file are in header_content + content
BytesRead(toks, samples) ==
    LET i == FirstTag(toks, PayloadKeys)
        found_at == SumSeq([j \in 1..(i - 1) |-> TokLen(toks[j])])
                    + 1 + Len(toks[i].key)
        chunks == (found_at + ReadChunkSize - 1) \div ReadChunkSize
        more == chunks * ReadChunkSize + (samples + 4) * 4 + 100
    IN  IF i = 0 \/ more > FileLen(toks) THEN FileLen(toks) ELSE more

load_in_chunks(toks, samples, offset) ==
    LET i == FirstTag(toks, PayloadKeys)
        header_content == HeaderToks(toks)
        content == SubSeq(toks, i, Len(toks))
        limit == BytesRead(toks, samples) - FileLen(header_content)
        tags0 == split_data_via_tags_meta(header_content)
        w == extract_waveform(content, limit, TRUE)
        cl == extract_binary_tags(content, limit, "CONTROL LIST WIDTH4", TRUE)
        tags1 == WithControlList(
                     Update(tags0, [encryption_flag |-> Bool(w.encryption_flag)]),
                     cl, samples)
        mwv_segment_count == Get(tags1, "mwv segment count", Num(1)).v
        iq == extract_iq_chunks(w.binary, samples, offset)
        meta == extract_meta(tags1, 0)
    IN  IF i = 0 THEN Failed(NoWaveformTag)
        ELSE IF w.err # NoErr THEN Failed(w.err)
        ELSE IF mwv_segment_count > 1 THEN Failed(ChunkMwvError)
        ELSE IF iq.err # NoErr THEN Failed(iq.err)
        ELSE IF meta.err # NoErr THEN Failed(meta.err)
        ELSE IF samples # Len(iq.iq) THEN Failed(ChunkSanityError)
        ELSE [err |-> NoErr,
              storages |-> <<[data |-> iq.iq,
                              meta |-> Meta(FALSE,
                                         handle_mwv_meta_data(meta.meta, 0))]>>]

----------------------------------------------------------------------------
(* The waveforms the model saves *)

\* a sample component of n quantisation steps, and one half a step above it
Steps(n) == n * SubSteps
Complex(re, im) == [re |-> re, im |-> im]

\* the sequences over S of length lo..hi
SeqsOf(S, lo, hi) == UNION {[1..n -> S] : n \in lo..hi}

\* values around the ties of np.round, the float16 spacing changes and the
\* ends of the int16 range
QuantVals ==
    {0, 1, Steps(1), Steps(3) + 1, Steps(2047), Steps(2049), Steps(4098),
     Steps(-4098), Steps(16392), Steps(32767), Steps(32768), Steps(40000),
     Steps(-32768), Steps(-40000)}

Ramp(len, base) ==
    [k \in 1..len |-> Complex(Steps(base + k), Steps(-(base + k)))]

ClockChoices == {<<>>, [clock |-> NoneV], [clock |-> Num(0)],
                 [clock |-> Num(100)], [clock |-> Num(200)]}

EncryptionChoices ==
    {<<>>, [encryption_flag |-> Bool(TRUE)], [encryption_flag |-> Bool(FALSE)],
     [encryption |-> Bool(TRUE)]}

\* Storage() with its data set and some metadata keys set, popped or cleared
Storage(data, meta) == [data |-> data, meta |-> meta]

DefaultMeta(i) == Meta(FALSE, [clock |-> Num(100 * i)])

\* a default Meta with the clock key popped, then the keys of c and e set
VariedMeta(c, e) == Update(Update(Pop(Meta(FALSE, <<>>), "clock"), c), e)

\* the offsets of the ramps that fill the segments
RampBases == {0, 500}

\* segments that differ in length and content, each with a clock of its own
SegmentData == {Ramp(len, b) : len \in 0..MaxLen, b \in RampBases}

DataWaveforms ==
    UNION {{[i \in 1..n |-> Storage(d[i], DefaultMeta(i))] :
               d \in [1..n -> SegmentData]} : n \in 1..MaxSegs}

\* fixed samples, the clock of every segment and the encryption keys of the
\* first varied.  Every segment has samples: with an empty buffer and no peak
\* in the metadata _write_level_offset raises before the clock is looked at.
MetaWaveforms ==
    UNION {{[i \in 1..n |->
                Storage(Ramp(i, 100 * i),
                        VariedMeta(c[i], IF i = 1 THEN e ELSE <<>>))] :
               c \in [1..n -> ClockChoices], e \in EncryptionChoices} :
           n \in 1..MaxSegs}

QuantWaveforms ==
    {<<Storage(<<Complex(v, -v)>>, DefaultMeta(1))>> : v \in QuantVals}

\* a file longer than the blocks load_in_chunks reads
BigLens == {1100}

RampWaveforms == {<<Storage(Ramp(n, 0), DefaultMeta(1))>> : n \in BigLens}

Waveforms == DataWaveforms \cup MetaWaveforms \cup QuantWaveforms \cup RampWaveforms

\* np.random.rand() * 512 rounded: the ends of the range
EmptyLens == {0, EmptyScale}

\* the windows a chunked load is asked for, given the sample count of the file
ChunkWindows(S) ==
    {[samples |-> n, offset |-> o] :
        n \in 1..(MaxLen + 1),
        o \in {0, 1, S} \cup (IF S > 1000 THEN {1000, 1050} ELSE {})}

----------------------------------------------------------------------------
(* Save then load *)

NoFile == [toks |-> <<>>, err |-> NoErr, patch |-> "none"]
NoRes == [err |-> NoErr, storages |-> <<>>]
NoReq == [samples |-> 0, offset |-> 0]

TotalSamples(storages) == SumSeq([i \in 1..Len(storages) |-> Len(storages[i].data)])

Init ==
    /\ wf \in Waveforms
    /\ file = NoFile
    /\ res = NoRes
    /\ req = NoReq
    /\ pc = "save"

\* Save.save(file, datas) with the default scale
WvSave ==
    /\ pc = "save"
    /\ \E rand_empty \in EmptyLens :
          LET st == save(wf, DefaultScale, rand_empty)
          IN  /\ file' = [toks |-> st.toks, err |-> st.err, patch |-> "none"]
              /\ pc' = IF st.err = NoErr THEN "saved" ELSE "save failed"
    /\ UNCHANGED <<wf, res, req>>

\* Load.load(file) of the saved file
WvLoad ==
    /\ pc = "saved"
    /\ res' = load(file.toks)
    /\ pc' = "loaded"
    /\ UNCHANGED <<wf, file, req>>

\* Load.load_in_chunks(file, samples, offset) of the saved file
WvLoadInChunks ==
    /\ pc = "saved"
    /\ \E w \in ChunkWindows(TotalSamples(wf)) :
          /\ req' = w
          /\ res' = load_in_chunks(file.toks, w.samples, w.offset)
    /\ pc' = "chunked"
    /\ UNCHANGED <<wf, file>>

Next == WvSave \/ WvLoad \/ WvLoadInChunks

Spec == Init /\ [][Next]_vars

----------------------------------------------------------------------------
(* Properties of save followed by load *)

Saved == pc \in {"saved", "loaded", "chunked"}
Loaded == pc = "loaded" /\ res.err = NoErr
PayloadTag == file.toks[FirstTag(file.toks, PayloadKeys)]

\* a loaded component, numerator over F16Max, in the unit of the waveform's
\* components, 1 / (SubSteps * 2^15)
InSubSteps(m) == (m * SubSteps * (DefaultScale \div 256)) \div (F16Max \div 256)

\* a component of the waveform saturated to the int16 range
SaturatedSubSteps(k) ==
    IF k > Steps(INT16_MAX) THEN Steps(INT16_MAX)
    ELSE IF k < Steps(INT16_MIN) THEN Steps(INT16_MIN)
    ELSE k

WithinOneStep(m, k) == Abs(InSubSteps(m) - SaturatedSubSteps(k)) <= SubSteps

\* the samples a segment has after quantisation to int16 and conversion back
Dequantised(data) == extract_iq(ToBytes(prepare_data(data, DefaultScale))).iq

\* C1: after save and load of a single-segment waveform every loaded sample is
\* within one quantisation step 1/2^15, in its real and in its imaginary
\* component, of the sample of the waveform saturated to the int16 range.
C1_RoundTripWithinOneStep ==
    (Loaded /\ Len(wf) = 1) =>
        /\ Len(res.storages) = 1
        /\ Len(res.storages[1].data) = Len(wf[1].data)
        /\ \A j \in 1..Len(wf[1].data) :
              /\ WithinOneStep(res.storages[1].data[j].re, wf[1].data[j].re)
              /\ WithinOneStep(res.storages[1].data[j].im, wf[1].data[j].im)

\* C2: after an MWV save and load, segment i of the loaded waveform holds the
\* dequantised samples of segment i of the saved waveform, for every i.
C2_SegmentsInOrder ==
    (Loaded /\ Len(wf) > 1) =>
        /\ Len(res.storages) = Len(wf)
        /\ \A i \in 1..Len(wf) :
              res.storages[i].data = Dequantised(wf[i].data)

\* C4: a save that succeeds writes the payload under WWAVEFORM when the first
\* segment's encryption_flag is true and under WAVEFORM otherwise, whether the
\* waveform has one segment or several.
C4_PayloadTagFollowsEncryptionFlag ==
    Saved =>
        PayloadTag.key =
            (IF Truthy(Get(wf[1].meta, "encryption_flag", Bool(FALSE)))
             THEN "WWAVEFORM" ELSE "WAVEFORM")

NoClock(meta) == ~Truthy(Get(meta, "clock", NoneV))

C9_SamplesIsBufferLength ==
    Loaded =>
        \A i \in 1..Len(res.storages) :
            res.storages[i].meta["samples"] = Num(Len(res.storages[i].data))

----------------------------------------------------------------------------
(* Properties of the chunked load *)

Chunked == pc = "chunked"
FullLoad == load(file.toks)

\* C3: a chunked load of a single-segment file with a window inside the file
\* returns the samples [offset, offset + samples) of the full load.
C3_ChunkIsWindowOfFullLoad ==
    (Chunked /\ Len(wf) = 1 /\ req.offset + req.samples <= TotalSamples(wf)) =>
        /\ res.err = NoErr
        /\ res.storages[1].data =
              Slice(FullLoad.storages[1].data, req.offset,
                    req.offset + req.samples)

\* C7: a chunked load of a file written with more than one segment fails.
C7_ChunkRejectsMwv ==
    (Chunked /\ Len(wf) > 1) => res.err # NoErr

\* C8: a chunked load whose window ends after the last sample of the file
\* fails.
C8_ChunkRejectsWindowPastEnd ==
    (Chunked /\ Len(wf) = 1 /\ req.offset + req.samples > TotalSamples(wf)) =>
        res.err # NoErr

----------------------------------------------------------------------------
(* Files whose binary tags are damaged after the save *)

\* samples whose last byte is and is not the closing brace
PatchVals == {Complex(Steps(1000), Steps(-2000)), Complex(Steps(-300), Steps(32100))}

\* control lists of n samples: alternating bits, and the two samples that pack
\* into the byte of the closing brace
Checker(n) == [r \in 1..4 |-> [c \in 1..n |-> (r + c) % 2]]
Brace(n) ==
    [r \in 1..4 |-> [c \in 1..n |->
        IF c % 2 = 1 THEN <<0, 1, 1, 1>>[r] ELSE <<1, 1, 0, 1>>[r]]]

ControlMeta(m) ==
    Update(DefaultMeta(1),
           [control_list |-> Mat(m), control_length |-> Num(NCols(m))])

PatchWaveforms ==
    UNION {{<<Storage(d, DefaultMeta(1))>>,
            <<Storage(d, ControlMeta(Checker(Len(d))))>>,
            <<Storage(d, ControlMeta(Brace(Len(d))))>>,
            <<Storage(d, DefaultMeta(1)), Storage(Ramp(1, 0), DefaultMeta(2))>>} :
           d \in SeqsOf(PatchVals, 1, MaxLen)}

BinaryTags == PayloadKeys \cup {"CONTROL LIST WIDTH4"}
FByte == 102
FFFF == <<FByte, FByte, FByte, FByte>>

CorruptKinds == {"insert", "closer", "cut", "short", "long"}

\* a binary tag with bytes put before its closing brace, the brace overwritten
\* or dropped, or the declared length off by one
Corrupted(bin, kind) ==
    LET payload == Slice(bin.rest, 0, Len(bin.rest) - 1)
    IN  CASE kind = "insert" -> [bin EXCEPT !.rest = payload \o FFFF \o <<BraceClose>>]
          [] kind = "closer" -> [bin EXCEPT !.rest = payload \o <<FByte>>]
          [] kind = "cut" -> [bin EXCEPT !.rest = payload]
          [] kind = "short" -> [bin EXCEPT !.count = @ - 1]
          [] kind = "long" -> [bin EXCEPT !.count = @ + 1]

InitMalformed ==
    /\ wf \in PatchWaveforms
    /\ file = NoFile
    /\ res = NoRes
    /\ req = NoReq
    /\ pc = "save"

\* the saved file is rewritten with one of the binary tags the reader extracts
\* damaged (the reader never looks at EMPTYTAG)
Corrupt ==
    /\ pc = "saved"
    /\ file.patch = "none"
    /\ \E i \in 1..Len(file.toks), kind \in CorruptKinds :
          /\ file.toks[i].key \in BinaryTags
          /\ file' = [file EXCEPT !.toks[i].val = Corrupted(@, kind),
                                  !.patch = kind]
    /\ UNCHANGED <<wf, res, req, pc>>

NextMalformed == WvSave \/ Corrupt \/ WvLoad

SpecMalformed == InitMalformed /\ [][NextMalformed]_vars

\* the byte of the file that follows the count - 1 payload bytes of tag i,
\* -1 when the file ends before it
ClosingByte(toks, i) ==
    LET bytes == RenderAll(toks)
        at == SumSeq([j \in 1..(i - 1) |-> TokLen(toks[j])])
              + HeadLen(toks[i]) + toks[i].val.count
    IN  IF at > Len(bytes) THEN -1 ELSE bytes[at]

----------------------------------------------------------------------------
(* Control lists packed and unpacked: wv/utility/array_to_bytes.py *)

\* the widest control list and the longest byte string
MaxCols == 3
MaxBytes == 2

Bits == {0, 1}
BoolMatrices == UNION {[1..4 -> [1..n -> Bits]] : n \in 1..MaxCols}

\* every byte in a string of one byte; longer strings over a few bytes
ByteVals == {0, 105, 128, 255}
ByteStrings == SeqsOf(0..255, 0, 1) \cup SeqsOf(ByteVals, 2, MaxBytes)

InitPack ==
    /\ wf \in {[kind |-> "matrix", v |-> U] : U \in BoolMatrices}
              \cup {[kind |-> "bytes", v |-> b] : b \in ByteStrings}
    /\ file = <<>>
    /\ res = <<>>
    /\ req = NoReq
    /\ pc = "start"

\* pack_bool_array_to_bytes of the matrix given, or of the matrix unpacked
Pack ==
    /\ \/ /\ wf.kind = "matrix" /\ pc = "start"
          /\ file' = pack_bool_array_to_bytes(wf.v)
          /\ pc' = "packed"
          /\ res' = res
       \/ /\ wf.kind = "bytes" /\ pc = "unpacked"
          /\ res' = pack_bool_array_to_bytes(file)
          /\ pc' = "end"
          /\ file' = file
    /\ UNCHANGED <<wf, req>>

\* unpack_bytes_to_bool_array of the bytes given, with two samples to the
\* byte, or of the packed matrix, with the sample count of the matrix
Unpack ==
    /\ \/ /\ wf.kind = "bytes" /\ pc = "start"
          /\ file' = unpack_bytes_to_bool_array(wf.v, 2 * Len(wf.v))
          /\ pc' = "unpacked"
          /\ res' = res
       \/ /\ wf.kind = "matrix" /\ pc = "packed"
          /\ res' = unpack_bytes_to_bool_array(file, NCols(wf.v))
          /\ pc' = "end"
          /\ file' = file
    /\ UNCHANGED <<wf, req>>

NextPack == Pack \/ Unpack

SpecPack == InitPack /\ [][NextPack]_vars

\* C10: a boolean matrix of 4 rows and n >= 1 columns packed and unpacked with
\* the sample count n is the matrix again, and a byte string unpacked with two
\* samples to the byte and packed is the byte string again.
C10_PackRoundTrips ==
    pc = "end" => res = wf.v

\* a matrix with an odd sample count, padded by pack, has come back
C10_WitnessMatrix ==
    /\ pc = "end"
    /\ wf.kind = "matrix"
    /\ NCols(wf.v) = 3
    /\ Len(file) = 2
    /\ res = wf.v
    /\ \E r \in 1..4 : wf.v[r][3] = 1

----------------------------------------------------------------------------
(* IQW: float32 *)

\* the scales of an IQW save are the powers of two up to 2^MaxScaleBits, so
\* that (1 / scale) * x is exact in float64
MaxScaleBits == 2

RECURSIVE Pow2(_)
Pow2(k) == IF k = 0 THEN 1 ELSE 2 * Pow2(k - 1)

MaxScale == Pow2(MaxScaleBits)

\* the position of the leading bit of a >= 1
RECURSIVE Exp2(_)
Exp2(a) == IF a < 2 THEN 0 ELSE 1 + Exp2(a \div 2)

\* ndarray.astype(np.float32) of the value n / MaxScale: sign, biased exponent
\* and fraction of the nearest float32, ties to even
F32(n) ==
    IF n = 0 THEN [sign |-> 0, exp |-> 0, frac |-> 0]
    ELSE LET a == Abs(n)
             t == Exp2(a)
             m == IF t <= 23 THEN a * Pow2(23 - t)
                  ELSE RoundHalfEven(a, Pow2(t - 23))
             carry == m = Pow2(24)
         IN  [sign |-> IF n < 0 THEN 1 ELSE 0,
              exp |-> t - MaxScaleBits + 127 + (IF carry THEN 1 ELSE 0),
              frac |-> IF carry THEN 0 ELSE m - Pow2(23)]

\* tobytes() of one float32: little endian
F32Bytes(n) ==
    LET f == F32(n)
    IN  <<f.frac % 256,
          (f.frac \div 256) % 256,
          (f.frac \div 65536) + 128 * (f.exp % 2),
          (f.exp \div 2) + 128 * f.sign>>

\* np.frombuffer(b, np.float32) of four bytes, in units of 1 / MaxScale
F32Value(b) ==
    LET frac == b[1] + 256 * b[2] + 65536 * (b[3] % 128)
        exp == (b[3] \div 128) + 2 * (b[4] % 128)
        sign == b[4] \div 128
        shift == exp - 127 - 23 + MaxScaleBits
        mag == IF exp = 0 THEN 0
               ELSE IF shift >= 0 THEN (Pow2(23) + frac) * Pow2(shift)
               ELSE (Pow2(23) + frac) \div Pow2(-shift)
    IN  IF sign = 1 THEN -mag ELSE mag

----------------------------------------------------------------------------
(* IQW save: iqw/save.py *)

\* (1 / scale) * iq_samples, in units of 1 / MaxScale
iqw_scale_data(iq_samples, scale) ==
    [k \in 1..Len(iq_samples) |->
        Complex(iq_samples[k].re * (MaxScale \div scale),
                iq_samples[k].im * (MaxScale \div scale))]

\* Q before I in each pair
iqw_prepare_data_QFirst(data) ==
    [j \in 1..(2 * Len(data)) |->
        IF j % 2 = 1 THEN data[(j + 1) \div 2].im ELSE data[j \div 2].re]

\* iq_data[0::2] = real, iq_data[1::2] = imag
iqw_prepare_data(data) ==
    [j \in 1..(2 * Len(data)) |->
        IF j % 2 = 1 THEN data[(j + 1) \div 2].re ELSE data[j \div 2].im]

\* astype(np.float32).tobytes() of a block
F32ToBytes(values) ==
    Flatten([j \in 1..Len(values) |-> F32Bytes(values[j])])

\* the block loop with the count of blocks rounded down
iqw_blocks_Floor(iq_data, cs) ==
    LET size == Len(iq_data)
        number_blocks == size \div cs
        idx_stop(b) == IF b * cs > size - 1 THEN size ELSE b * cs
    IN  Flatten([b \in 1..number_blocks |->
                    F32ToBytes(Slice(iq_data, (b - 1) * cs, idx_stop(b)))])

\* the block loop of _write_data, blocks of cs elements, as the bytes written
iqw_blocks(iq_data, cs) ==
    LET size == Len(iq_data)
        number_blocks == (size + cs - 1) \div cs
        idx_stop(b) == IF b * cs > size - 1 THEN size ELSE b * cs
    IN  Flatten([b \in 1..number_blocks |->
                    F32ToBytes(Slice(iq_data, (b - 1) * cs, idx_stop(b)))])

\* Save._write_data: scaled, interleaved, written in blocks
iqw_write_data(storage, scale, cs) ==
    iqw_blocks(iqw_prepare_data(iqw_scale_data(storage.data, scale)), cs)

\* Save._write: every storage in turn into the one file
iqw_write(storages, scale) ==
    Flatten([i \in 1..Len(storages) |->
                iqw_write_data(storages[i], scale, chunk_size)])

----------------------------------------------------------------------------
(* IQW load: iqw/load.py *)

IqwNoMetaError == "Iqw does not contain meta data!"

\* the four bytes at start * 4 of every eight
iqw_extract_pairs(buf, start) ==
    Flatten([p \in 1..((Len(buf) - start * 4 + 7) \div 8) |->
                Slice(buf, start * 4 + (p - 1) * 8, start * 4 + (p - 1) * 8 + 4)])

\* np.frombuffer(pairs, np.float32)
iqw_frombuffer(pairs) ==
    [j \in 1..(Len(pairs) \div 4) |-> F32Value(SubSeq(pairs, 4 * j - 3, 4 * j))]

\* i_values + 1j * q_values
iqw_extract_data(content) ==
    LET i_values == iqw_frombuffer(iqw_extract_pairs(content, 0))
        q_values == iqw_frombuffer(iqw_extract_pairs(content, 1))
    IN  [k \in 1..Len(i_values) |-> Complex(i_values[k], q_values[k])]

\* _extract_iq: the data of the one storage of ParentStorage(no_defaults=True)
iqw_extract_iq(content) ==
    [err |-> NoErr,
     storages |-> <<Storage(iqw_extract_data(content), Meta(TRUE, <<>>))>>]

\* Load.load: fp.read() is the whole file
iqw_load(bytes) == iqw_extract_iq(bytes)

\* Load.load_in_chunks: fp.read(offset * 4 * 2), then fp.read(samples * 4 * 2)
iqw_load_in_chunks(bytes, samples, offset) ==
    iqw_extract_iq(Slice(bytes, offset * 4 * 2, offset * 4 * 2 + samples * 4 * 2))

\* a load_meta that reads the file as load does
iqw_load_meta_Reads(bytes) == [out |-> iqw_load(bytes), nread |-> Len(bytes)]

\* Load.load_meta: raises, the file is not opened
iqw_load_meta(bytes) == [out |-> Failed(IqwNoMetaError), nread |-> 0]

----------------------------------------------------------------------------
(* IQW: save, then load, load_in_chunks or load_meta *)

\* float32 keeps 24 bits: 2^24 + 1 is a tie, 2^24 + 3 rounds up
IqwSamples ==
    {Complex(0, 1), Complex(-3, Pow2(24) + 1),
     Complex(Pow2(24) + 3, -(Pow2(24) + 1)), Complex(5, 0)}

IqwData == SeqsOf(IqwSamples, 0, MaxLen)

IqwSegments == {<<Complex(0, 1)>>, <<Complex(5, 0), Complex(-3, Pow2(24) + 1)>>}

IqwWaveforms ==
    {<<Storage(d, Meta(FALSE, <<>>))>> : d \in IqwData}
    \cup {[i \in 1..Len(s) |-> Storage(s[i], Meta(FALSE, <<>>))] :
            s \in SeqsOf(IqwSegments, 2, MaxSegs)}

IqwScales == {Pow2(k) : k \in 0..MaxScaleBits}

IqwWindows == {[samples |-> n, offset |-> o] : n \in 0..MaxLen, o \in 0..MaxLen}

IqwNoFile == [bytes |-> <<>>, nread |-> 0]

InitIqw ==
    /\ wf \in IqwWaveforms
    /\ file = IqwNoFile
    /\ res = NoRes
    /\ req = [scale |-> 1, samples |-> 0, offset |-> 0]
    /\ pc = "save"

\* Save.save(file, data, scale)
IqwSave ==
    /\ pc = "save"
    /\ \E scale \in IqwScales :
          /\ file' = [bytes |-> iqw_write(wf, scale), nread |-> 0]
          /\ req' = [req EXCEPT !.scale = scale]
    /\ pc' = "saved"
    /\ UNCHANGED <<wf, res>>

\* Load.load(file)
IqwLoad ==
    /\ pc = "saved"
    /\ res' = iqw_load(file.bytes)
    /\ file' = [file EXCEPT !.nread = Len(file.bytes)]
    /\ pc' = "loaded"
    /\ UNCHANGED <<wf, req>>

\* Load.load_in_chunks(file, samples, offset)
IqwLoadInChunks ==
    /\ pc = "saved"
    /\ \E w \in IqwWindows :
          /\ req' = [req EXCEPT !.samples = w.samples, !.offset = w.offset]
          /\ res' = iqw_load_in_chunks(file.bytes, w.samples, w.offset)
          /\ file' = [file EXCEPT !.nread =
                        Len(Slice(file.bytes, 0, (w.offset + w.samples) * 4 * 2))]
    /\ pc' = "chunked"
    /\ UNCHANGED wf

\* Load.load_meta(file)
IqwLoadMeta ==
    /\ pc = "saved"
    /\ LET r == iqw_load_meta(file.bytes)
       IN  /\ res' = r.out
           /\ file' = [file EXCEPT !.nread = r.nread]
    /\ pc' = "meta"
    /\ UNCHANGED <<wf, req>>

NextIqw == IqwSave \/ IqwLoad \/ IqwLoadInChunks \/ IqwLoadMeta

SpecIqw == InitIqw /\ [][NextIqw]_vars

\* y is a float32 next to x (both in units of 1 / MaxScale): on the grid of
\* 24-bit significands at x, and at most half a grid step from x
IsFloat32Of(y, x) ==
    LET t == Exp2(Abs(x))
        ulp == IF t > 23 THEN Pow2(t - 23) ELSE 1
    IN  /\ y % ulp = 0
        /\ 2 * Abs(y - x) <= ulp

\* the float32 held by the file at the 0-based position j
FileFloat(j) == F32Value(SubSeq(file.bytes, 4 * j + 1, 4 * j + 4))

\* C11: IQW save of one segment of n samples writes 8 * n bytes, the float32
\* values I0, Q0, I1, Q1, ... of the samples divided by scale and nothing
\* else, and IQW load of the file returns n samples, sample k being I_k + j Q_k.
C11_IqwInterleavedFloat32 ==
    (pc \in {"saved", "loaded"} /\ Len(wf) = 1) =>
        LET data == wf[1].data
            unit == MaxScale \div req.scale
        IN  /\ Len(file.bytes) = 8 * Len(data)
            /\ \A k \in 1..Len(data) :
                  /\ IsFloat32Of(FileFloat(2 * k - 2), data[k].re * unit)
                  /\ IsFloat32Of(FileFloat(2 * k - 1), data[k].im * unit)
            /\ pc = "loaded" =>
                  /\ res.err = NoErr
                  /\ Len(res.storages) = 1
                  /\ Len(res.storages[1].data) = Len(data)
                  /\ \A k \in 1..Len(data) :
                        res.storages[1].data[k] =
                            Complex(FileFloat(2 * k - 2), FileFloat(2 * k - 1))

\* two samples saved with scale 2 and loaded, one of them rounded by float32
C11_Witness ==
    /\ pc = "loaded"
    /\ Len(wf) = 1
    /\ req.scale = 2
    /\ wf[1].data = <<Complex(5, 0), Complex(Pow2(24) + 3, -(Pow2(24) + 1))>>
    /\ Len(file.bytes) = 16
    /\ res.storages[1].data[1] = Complex(5 * (MaxScale \div 2), 0)
    /\ res.storages[1].data[2].re = (Pow2(24) + 4) * (MaxScale \div 2)

\* C20: IQW load_meta fails for every file, reads nothing of it and returns
\* no waveform.
C20_IqwLoadMetaFails ==
    pc = "meta" =>
        /\ res.err = IqwNoMetaError
        /\ res.storages = <<>>
        /\ file.nread = 0

\* load_meta has failed on a file that holds samples
C20_Witness ==
    /\ pc = "meta"
    /\ Len(file.bytes) >= 8
    /\ res.err = IqwNoMetaError
    /\ file.nread = 0

----------------------------------------------------------------------------
(* IQTAR save: iqtar/Save.py. The archive holds the XML sidecar, a sequence *)
(* of elements with their text and unit attribute, and the payload member,  *)
(* an IQW file.                                                             *)

DigitChars == <<"0", "1", "2", "3", "4", "5", "6", "7", "8", "9">>

RECURSIVE DecDigits(_)
DecDigits(n) ==
    IF n < 10 THEN <<DigitChars[n + 1]>>
    ELSE DecDigits(n \div 10) \o <<DigitChars[(n % 10) + 1]>>

Numeral(chars) == [t |-> "numeral", v |-> chars]

\* f"{value}": a number as its decimal numeral, None as the word, a string as
\* it is
Format(x) ==
    CASE x.t = "num" ->
            Numeral(IF x.v < 0 THEN <<"-">> \o DecDigits(-x.v) ELSE DecDigits(x.v))
      [] x.t = "None" -> Str("None")
      [] OTHER -> x

Elem(key, val, unit) == [key |-> key, val |-> val, unit |-> unit]

\* datetime.now() of the ParentStorage, in isoformat()
IsoTimestamp == Str("2026-01-01T00:00:00")

iqtar_write_overhead(st) ==
    Emit(st, Elem("Name", Str("Python iq.tar Writer"), NoneV))

iqtar_write_date(st) == Emit(st, Elem("DateTime", IsoTimestamp, NoneV))

iqtar_write_comment(st, data) ==
    Emit(st, Elem("Comment",
                  Format(Get(data.meta, "comment", META_IQTAR_DEFAULTS.comment)),
                  NoneV))

iqtar_write_samples(st, data) ==
    Emit(st, Elem("Samples", Format(Num(Len(data.data))), NoneV))

iqtar_write_clock(st, data) ==
    LET clock == Get(data.meta, "clock", NoneV)
    IN  IF ~Truthy(clock)
        THEN Raise(st, ClockError)
        ELSE Emit(st, Elem("Clock", Format(clock), Str("Hz")))

iqtar_write_scaling_factor(st, data) ==
    Emit(st, Elem("ScalingFactor",
                  Format(Get(data.meta, "scalingfactor", Num(1))), Str("V")))

iqtar_write_datafilename(st, filenameiqw) ==
    Emit(st, Elem("DataFilename", Str(filenameiqw), NoneV))

iqtar_write_number_of_channels(st, storages) ==
    Emit(st, Elem("NumberOfChannels", Format(Num(Len(storages))), NoneV))

iqtar_write_center_frequency(st, data) ==
    LET cf == Get(data.meta, "center_frequency", Num(0))
    IN  IF cf # Num(0)
        THEN Emit(st, Elem("UserData/RohdeSchwarz/SpectrumAnalyzer/CenterFrequency",
                           Format(cf), Str("Hz")))
        ELSE st

\* Save._write_xml: the elements in the order written, from the metadata of
\* the first storage
iqtar_write_xml(storages, filename_iqw) ==
    LET s0 == [toks |-> <<>>, err |-> NoErr]
        s1 == iqtar_write_overhead(s0)
        s2 == iqtar_write_date(s1)
        s3 == iqtar_write_comment(s2, storages[1])
        s4 == iqtar_write_samples(s3, storages[1])
        s5 == iqtar_write_clock(s4, storages[1])
        s6 == Emit(s5, Elem("Format", Str("complex"), NoneV))
        s7 == Emit(s6, Elem("DataType", Str("float32"), NoneV))
        s8 == iqtar_write_scaling_factor(s7, storages[1])
        s9 == iqtar_write_datafilename(s8, filename_iqw)
        s10 == iqtar_write_number_of_channels(s9, storages)
    IN  iqtar_write_center_frequency(s10, storages[1])

PayloadName == "data.complex.1ch.float32"

\* Save._write: the payload by the IQW save, then the XML, then both into the
\* archive; an error of the XML leaves no archive
iqtar_save(storages, scale) ==
    LET payload == iqw_write(storages, scale)
        xml == iqtar_write_xml(storages, PayloadName)
    IN  [xml |-> IF xml.err = NoErr THEN xml.toks ELSE <<>>,
         payload |-> IF xml.err = NoErr THEN payload ELSE <<>>,
         err |-> xml.err]

----------------------------------------------------------------------------
(* IQTAR load: iqtar/load.py *)

UnsupportedUnitError == "unsupported unit!"
ChunkChannelsError == "Reading in chunks only supported for single channel!"
FloatTextError == "could not convert string to float"
IntTextError == "invalid literal for int() with base 10"

\* Load._allowed_tags with the metadata key of each tag: the last part of the
\* path in lower case, mapped by map_meta_information_name
AllowedTags ==
    <<[tag |-> "Clock", key |-> "clock", unit |-> TRUE],
      [tag |-> "DataFilename", key |-> "datafilename", unit |-> FALSE],
      [tag |-> "Samples", key |-> "samples", unit |-> FALSE],
      [tag |-> "ScalingFactor", key |-> "scalingfactor", unit |-> TRUE],
      [tag |-> "NumberOfChannels", key |-> "numberofchannels", unit |-> TRUE],
      [tag |-> "DataType", key |-> "datatype", unit |-> FALSE],
      [tag |-> "Format", key |-> "format", unit |-> FALSE],
      [tag |-> "Name", key |-> "name", unit |-> FALSE],
      [tag |-> "Comment", key |-> "comment", unit |-> FALSE],
      [tag |-> "DateTime", key |-> "date", unit |-> FALSE],
      [tag |-> "UserData/RohdeSchwarz/SpectrumAnalyzer/CenterFrequency",
       key |-> "centerfrequency", unit |-> FALSE]>>

\* _split_data_via_tags: [value, unit] of the first element of each allowed
\* tag that the XML has
iqtar_split_data_via_tags(xml) ==
    LET found == {a \in 1..Len(AllowedTags) : FirstTag(xml, {AllowedTags[a].tag}) # 0}
        at(k) == CHOOSE a \in found : AllowedTags[a].key = k
        elem(k) == xml[FirstTag(xml, {AllowedTags[at(k)].tag})]
    IN  [k \in {AllowedTags[a].key : a \in found} |->
            [value |-> elem(k).val,
             unit |-> IF AllowedTags[at(k)].unit THEN elem(k).unit ELSE NoneV]]

DigitOf(c) == CHOOSE d \in 0..9 : DigitChars[d + 1] = c

RECURSIVE DecValue(_)
DecValue(chars) ==
    IF Len(chars) = 0 THEN 0
    ELSE 10 * DecValue(SubSeq(chars, 1, Len(chars) - 1)) + DigitOf(chars[Len(chars)])

\* the text is an optional sign and decimal digits
IsNumeral(x) ==
    /\ x.t = "numeral"
    /\ LET d == IF Len(x.v) > 0 /\ x.v[1] = "-" THEN Tail(x.v) ELSE x.v
       IN  /\ Len(d) > 0
           /\ \A i \in 1..Len(d) : \E n \in 1..10 : DigitChars[n] = d[i]

\* float(value) and int(value) of such a text
NumeralValue(x) ==
    IF x.v[1] = "-" THEN Num(-DecValue(Tail(x.v))) ELSE Num(DecValue(x.v))

\* the error of one key of _extract_meta, NoErr when it converts
iqtar_meta_error(key, value, unit) ==
    CASE key \in {"clock", "scalingfactor"} /\ ~IsNumeral(value) -> FloatTextError
      [] key = "numberofchannels" /\ ~IsNumeral(value) -> IntTextError
      [] key = "scalingfactor" /\ Truthy(unit) /\ unit # Str("V") ->
            UnsupportedUnitError
      [] OTHER -> NoErr

\* the value of one key of _extract_meta
iqtar_meta_value(key, value) ==
    CASE key \in {"clock", "scalingfactor", "numberofchannels"} -> NumeralValue(value)
      [] key = "date" -> [t |-> "datetime", v |-> value.v]
      [] OTHER -> value

\* Load._extract_meta: the keys in the order of the tags; the first error ends it
iqtar_extract_meta(tags) ==
    LET keys == DOMAIN tags \ {"samples"}
        bad == {a \in 1..Len(AllowedTags) :
                   /\ AllowedTags[a].key \in keys
                   /\ iqtar_meta_error(AllowedTags[a].key,
                                       tags[AllowedTags[a].key].value,
                                       tags[AllowedTags[a].key].unit) # NoErr}
        first == CHOOSE a \in bad : \A b \in bad : a <= b
    IN  IF bad # {}
        THEN [err |-> iqtar_meta_error(AllowedTags[first].key,
                                       tags[AllowedTags[first].key].value,
                                       tags[AllowedTags[first].key].unit),
              meta |-> <<>>]
        ELSE [err |-> NoErr,
              meta |-> [k \in keys |-> iqtar_meta_value(k, tags[k].value)]]

\* astype(np.float32) of n / MaxScale, in units of 1 / MaxScale
F32Round(n) == F32Value(F32Bytes(n))

\* Load._scale_data: scaling_factor * data in complex64 when the factor is not 1
iqtar_scale_data(data, meta) ==
    LET scaling_factor == Get(meta, "scalingfactor", Num(1)).v
    IN  IF scaling_factor # 1
        THEN [k \in 1..Len(data) |->
                 Complex(F32Round(scaling_factor * data[k].re),
                         F32Round(scaling_factor * data[k].im))]
        ELSE data

IqtarFailed(e, payload_read) ==
    [err |-> e, storages |-> <<>>, payload_read |-> payload_read]

\* Load._read
iqtar_read(archive) ==
    LET m == iqtar_extract_meta(iqtar_split_data_via_tags(archive.xml))
        meta1 == Pop(m.meta, "datafilename")
        samples == iqtar_scale_data(iqw_extract_data(archive.payload), meta1)
        number_of_channels == Get(meta1, "numberofchannels", Num(1)).v
        meta2 == Pop(meta1, "numberofchannels")
        samples_per_channel == Len(samples) \div number_of_channels
    IN  IF m.err # NoErr THEN IqtarFailed(m.err, FALSE)
        ELSE [err |-> NoErr,
              storages |->
                 [c \in 1..number_of_channels |->
                     Storage(Slice(samples, (c - 1) * samples_per_channel,
                                   samples_per_channel * c),
                             Meta(FALSE, meta2))],
              payload_read |-> TRUE]

\* a chunked read that takes the archive whatever its channel count
iqtar_read_in_chunks_AnyChannels(archive, nr_samples, samples_offset) ==
    LET m == iqtar_extract_meta(iqtar_split_data_via_tags(archive.xml))
        meta1 == Pop(m.meta, "numberofchannels")
        meta2 == Pop(meta1, "datafilename")
        content == Slice(archive.payload, samples_offset * 4 * 2,
                         samples_offset * 4 * 2 + nr_samples * 4 * 2)
        samples == iqtar_scale_data(iqw_extract_data(content), meta2)
    IN  IF m.err # NoErr THEN IqtarFailed(m.err, FALSE)
        ELSE [err |-> NoErr,
              storages |-> <<Storage(samples, Meta(FALSE, meta2))>>,
              payload_read |-> TRUE]

\* Load._read_in_chunks
iqtar_read_in_chunks(archive, nr_samples, samples_offset) ==
    LET m == iqtar_extract_meta(iqtar_split_data_via_tags(archive.xml))
        number_of_channels == Get(m.meta, "numberofchannels", Num(1)).v
        meta1 == Pop(m.meta, "numberofchannels")
        meta2 == Pop(meta1, "datafilename")
        content == Slice(archive.payload, samples_offset * 4 * 2,
                         samples_offset * 4 * 2 + nr_samples * 4 * 2)
        samples == iqtar_scale_data(iqw_extract_data(content), meta2)
    IN  IF m.err # NoErr THEN IqtarFailed(m.err, FALSE)
        ELSE IF number_of_channels > 1 THEN IqtarFailed(ChunkChannelsError, FALSE)
        ELSE [err |-> NoErr,
              storages |-> <<Storage(samples, Meta(FALSE, meta2))>>,
              payload_read |-> TRUE]

\* Load.load_meta: the metadata of the XML on a storage with no samples
iqtar_load_meta(archive) ==
    LET m == iqtar_extract_meta(iqtar_split_data_via_tags(archive.xml))
    IN  IF m.err # NoErr THEN IqtarFailed(m.err, FALSE)
        ELSE [err |-> NoErr,
              storages |-> <<Storage(<<>>, Meta(FALSE, m.meta))>>,
              payload_read |-> FALSE]

----------------------------------------------------------------------------
(* IQTAR: save, an archive edited by hand, then load, load_in_chunks or     *)
(* load_meta                                                                *)

IqtarSamples ==
    <<Complex(0, 1), Complex(-3, Pow2(24) + 1),
      Complex(Pow2(24) + 3, -(Pow2(24) + 1)), Complex(5, 0)>>

IqtarSegment(len, base) ==
    [k \in 1..len |-> IqtarSamples[((base + k) % Len(IqtarSamples)) + 1]]

IqtarMeta(c, sf) == Meta(FALSE, [clock |-> Num(c), scalingfactor |-> Num(sf)])

\* the scalingfactor of the metadata: 0, the default 1, and others
ScalingFactors == 0..3

\* one channel, or channels of equal length, or the last one longer
IqtarWaveforms ==
    {<<Storage(IqtarSegment(len, b), IqtarMeta(c, sf))>> :
        len \in 0..MaxLen, b \in {0, 2}, c \in {0, 100}, sf \in ScalingFactors}
    \cup {[i \in 1..n |->
             Storage(IqtarSegment(IF i = n THEN len + more ELSE len, i),
                     IqtarMeta(100 * i, sf))] :
            n \in 2..MaxSegs, len \in 0..MaxLen, sf \in {1, 2}, more \in {0, 1}}

\* the edits: the unit attribute of ScalingFactor set or removed, or the text
\* of NumberOfChannels set
IqtarPatches ==
    {[tag |-> "ScalingFactor", unit |-> u] : u \in {Str("mV"), Str(""), NoneV}}
    \cup {[tag |-> "NumberOfChannels", text |-> Format(Num(n))] : n \in {0, 2}}

IqtarPatched(xml, p) ==
    [i \in 1..Len(xml) |->
        IF xml[i].key # p.tag THEN xml[i]
        ELSE IF p.tag = "ScalingFactor" THEN [xml[i] EXCEPT !.unit = p.unit]
        ELSE [xml[i] EXCEPT !.val = p.text]]

IqtarWindows == {[samples |-> n, offset |-> o] : n \in 0..MaxLen, o \in 0..1}

IqtarNoFile == [xml |-> <<>>, payload |-> <<>>, err |-> NoErr, patch |-> "none"]

IqtarNoRes == IqtarFailed(NoErr, FALSE)

InitIqtar ==
    /\ wf \in IqtarWaveforms
    /\ file = IqtarNoFile
    /\ res = IqtarNoRes
    /\ req = [scale |-> 1, samples |-> 0, offset |-> 0]
    /\ pc = "save"

\* Save.save(file, datas, scale)
IqtarSave ==
    /\ pc = "save"
    /\ \E scale \in IqwScales :
          LET a == iqtar_save(wf, scale)
          IN  /\ file' = [xml |-> a.xml, payload |-> a.payload, err |-> a.err,
                          patch |-> "none"]
              /\ req' = [req EXCEPT !.scale = scale]
              /\ pc' = IF a.err = NoErr THEN "saved" ELSE "save failed"
    /\ UNCHANGED <<wf, res>>

\* the archive is unpacked, its XML edited, and packed again
IqtarPatch ==
    /\ pc = "saved"
    /\ file.patch = "none"
    /\ \E p \in IqtarPatches :
          file' = [file EXCEPT !.xml = IqtarPatched(@, p), !.patch = p.tag]
    /\ UNCHANGED <<wf, res, req, pc>>

\* Load.load(file)
IqtarLoad ==
    /\ pc = "saved"
    /\ res' = iqtar_read(file)
    /\ pc' = "loaded"
    /\ UNCHANGED <<wf, file, req>>

\* Load.load_in_chunks(file, samples, offset)
IqtarLoadInChunks ==
    /\ pc = "saved"
    /\ \E w \in IqtarWindows :
          /\ req' = [req EXCEPT !.samples = w.samples, !.offset = w.offset]
          /\ res' = iqtar_read_in_chunks(file, w.samples, w.offset)
    /\ pc' = "chunked"
    /\ UNCHANGED <<wf, file>>

\* Load.load_meta(file)
IqtarLoadMeta ==
    /\ pc = "saved"
    /\ res' = iqtar_load_meta(file)
    /\ pc' = "meta"
    /\ UNCHANGED <<wf, file, req>>

NextIqtar ==
    IqtarSave \/ IqtarPatch \/ IqtarLoad \/ IqtarLoadInChunks \/ IqtarLoadMeta

SpecIqtar == InitIqtar /\ [][NextIqtar]_vars

\* the element of the XML of the archive with the tag
XmlElem(tag) == file.xml[FirstTag(file.xml, {tag})]

\* the loaded samples are the samples of data under the float32 cast
Float32Cast(loaded, data) ==
    /\ Len(loaded) = Len(data)
    /\ \A k \in 1..Len(data) :
          /\ IsFloat32Of(loaded[k].re, data[k].re * MaxScale)
          /\ IsFloat32Of(loaded[k].im, data[k].im * MaxScale)

\* a full load, with the default scale, of the archive as it was saved
IqtarRoundTrip ==
    /\ pc = "loaded"
    /\ file.patch = "none"
    /\ req.scale = 1

\* C12: for a waveform of n >= 1 segments of equal length, IQTAR load of the
\* saved archive has n segments, segment c holds the samples of segment c of
\* the waveform, and all segments have equal metadata.
C12_ChannelsRoundTrip ==
    (IqtarRoundTrip /\ \A c \in 1..Len(wf) : Len(wf[c].data) = Len(wf[1].data)) =>
        /\ res.err = NoErr
        /\ Len(res.storages) = Len(wf)
        /\ \A c \in 1..Len(wf) : Float32Cast(res.storages[c].data, wf[c].data)
        /\ \A c \in 1..Len(wf) : res.storages[c].meta = res.storages[1].meta

\* C13: for a waveform of one channel with a clock and a metadata
\* scalingfactor that is not 0, IQTAR load of the archive saved with the
\* default scale returns the samples of the waveform under the float32 cast.
C13_ScalingFactorRoundTrip ==
    (/\ IqtarRoundTrip
     /\ Len(wf) = 1
     /\ Truthy(wf[1].meta.clock)
     /\ wf[1].meta.scalingfactor # Num(0)) =>
        /\ res.err = NoErr
        /\ Float32Cast(res.storages[1].data, wf[1].data)

\* C14: IQTAR load, load_in_chunks and load_meta fail when the ScalingFactor
\* element has a unit attribute that is not "V", and the payload member has
\* not been read.
C14_UnitOtherThanVRejected ==
    (/\ pc \in {"loaded", "chunked", "meta"}
     /\ XmlElem("ScalingFactor").unit.t = "str"
     /\ XmlElem("ScalingFactor").unit # Str("V")) =>
        /\ res.err # NoErr
        /\ ~res.payload_read

\* C15: IQTAR load_in_chunks of an archive whose NumberOfChannels is greater
\* than 1 fails, with the error of the channel count when the XML has parsed
\* into metadata, and the payload member has not been read.
C15_ChunkRejectsChannels ==
    (/\ pc = "chunked"
     /\ NumeralValue(XmlElem("NumberOfChannels").val).v > 1) =>
        /\ res.err # NoErr
        /\ ~res.payload_read
        /\ iqtar_extract_meta(iqtar_split_data_via_tags(file.xml)).err = NoErr
              => res.err = ChunkChannelsError

\* a chunk was asked of an archive saved from two channels
C15_Witness ==
    /\ pc = "chunked"
    /\ Len(wf) = 2
    /\ file.patch = "none"
    /\ Len(file.payload) > 0
    /\ req.samples > 0
    /\ res.err = ChunkChannelsError
    /\ ~res.payload_read

----------------------------------------------------------------------------
(* The block-wise write of the payload, WV and IQW, for any block size *)

MaxPayload == 7
MaxBlock == 4

\* the element arrays: int16 values for WV, values to be cast to float32 for IQW
PayloadElems(size, base) == [k \in 1..size |-> base + k]

InitBlocks ==
    /\ wf \in {PayloadElems(size, base) : size \in 0..MaxPayload, base \in {0, 300}}
    /\ file = <<>>
    /\ res = <<>>
    /\ req \in {[codec |-> c, cs |-> cs] : c \in {"wv", "iqw"}, cs \in 1..MaxBlock}
    /\ pc = "start"

\* the block loop of Save._write_waveform, with chunk_size = req.cs
WvWriteBlocks ==
    /\ pc = "start"
    /\ req.codec = "wv"
    /\ file' = WaveformBlocks(wf, req.cs)
    /\ pc' = "written"
    /\ UNCHANGED <<wf, res, req>>

\* the block loop of the IQW Save._write_data, with chunk_size = req.cs
IqwWriteBlocks ==
    /\ pc = "start"
    /\ req.codec = "iqw"
    /\ file' = iqw_blocks(wf, req.cs)
    /\ pc' = "written"
    /\ UNCHANGED <<wf, res, req>>

NextBlocks == WvWriteBlocks \/ IqwWriteBlocks

SpecBlocks == InitBlocks /\ [][NextBlocks]_vars

\* C16: the block-wise write of WV save and of IQW save writes the bytes of a
\* single write of the whole payload, for every payload size and every
\* positive block size.
C16_BlocksEqualSingleWrite ==
    pc = "written" =>
        file = IF req.codec = "wv" THEN ToBytes(wf) ELSE F32ToBytes(wf)

\* a payload one element longer than two blocks has been written by IQW save
C16_Witness ==
    /\ pc = "written"
    /\ req.codec = "iqw"
    /\ req.cs = 3
    /\ Len(wf) = 7
    /\ Len(file) = 28
    /\ SubSeq(file, 25, 28) = F32Bytes(wf[7])

----------------------------------------------------------------------------
(* ParentStorage: parent_storage.py, and the loads that return one *)

ZerosLen == 1024
StoragesError == "Only positive number of storages allowed!"

\* Storage(no_defaults=...): 1024 zeros and a Meta
NewStorage(no_defaults) ==
    Storage([k \in 1..ZerosLen |-> Complex(0, 0)], Meta(no_defaults, <<>>))

\* ParentStorage.__init__: no object when number_of_storages <= 0
ParentStorage(number_of_storages, no_defaults) ==
    IF number_of_storages <= 0
    THEN Failed(StoragesError)
    ELSE [err |-> NoErr,
          storages |-> [i \in 1..number_of_storages |-> NewStorage(no_defaults)]]

\* ParentStorage.add_storage
add_storage(storages, storage) == Append(storages, storage)

\* the storages setter: the list given, whatever it holds
set_storages(storages, new) == new

\* the storages a caller has at hand
PsStorages ==
    {NewStorage(FALSE), NewStorage(TRUE),
     Storage(IqtarSegment(1, 0), IqtarMeta(100, 1))}

\* the files a load is given: saved by the codec from one or two segments,
\* the IQTAR archive also with NumberOfChannels edited
PsWaveforms ==
    {[i \in 1..n |-> Storage(IqtarSegment(len, i), IqtarMeta(100, 1))] :
        n \in 1..MaxSegs, len \in 1..MaxLen}

PsLoads ==
    {[codec |-> "wv", out |-> load(save(w, DefaultScale, 0).toks)] :
        w \in PsWaveforms}
    \cup {[codec |-> "iqw", out |-> iqw_load(iqw_write(w, 1))] : w \in PsWaveforms}
    \cup {[codec |-> "iqtar", out |-> iqtar_read(iqtar_save(w, 1))] :
            w \in PsWaveforms}
    \cup {[codec |-> "iqtar",
           out |-> iqtar_read([iqtar_save(w, 1) EXCEPT !.xml = IqtarPatched(@, p)])] :
            w \in PsWaveforms,
            p \in {q \in IqtarPatches : q.tag = "NumberOfChannels"}}

InitParent ==
    /\ wf = <<>>
    /\ file = <<>>
    /\ res = NoErr
    /\ req = "none"
    /\ pc = "start"

\* ParentStorage(number_of_storages, no_defaults)
PsConstruct ==
    /\ pc = "start"
    /\ \E n \in -1..MaxSegs, no_defaults \in BOOLEAN :
          LET p == ParentStorage(n, no_defaults)
          IN  /\ wf' = p.storages
              /\ res' = p.err
              /\ pc' = IF p.err = NoErr THEN "object" ELSE "rejected"
    /\ req' = "construct"
    /\ UNCHANGED file

\* parent_storage.add_storage(storage)
PsAddStorage ==
    /\ pc = "object"
    /\ Len(wf) <= MaxSegs
    /\ \E s \in PsStorages : wf' = add_storage(wf, s)
    /\ req' = "add_storage"
    /\ UNCHANGED <<file, res, pc>>

\* parent_storage.storages = [...]
PsSetStorages ==
    /\ pc = "object"
    /\ \E new \in SeqsOf(PsStorages, 0, MaxSegs) : wf' = set_storages(wf, new)
    /\ req' = "storages"
    /\ UNCHANGED <<file, res, pc>>

\* a load of a codec: the ParentStorage it returns, when it returns
PsLoad ==
    /\ pc \in {"start", "object"}
    /\ \E l \in PsLoads :
          /\ l.out.err = NoErr
          /\ wf' = l.out.storages
          /\ req' = l.codec
    /\ pc' = "object"
    /\ UNCHANGED <<file, res>>

NextParent == PsConstruct \/ PsAddStorage \/ PsSetStorages \/ PsLoad

SpecParent == InitParent /\ [][NextParent]_vars

\* C17: after construction, after add_storage, after assigning the segment
\* list and after any successful load, a ParentStorage holds at least one
\* segment.
C17_AtLeastOneSegment ==
    pc = "object" => Len(wf) >= 1

----------------------------------------------------------------------------
(* Meta objects and the dicts they refer to: meta/meta_wv.py. The heap is   *)
(* the sequence of the dict objects that a marker key can refer to; its     *)
(* first object is the dict that META_WV_DEFAULTS holds under "marker".     *)

MaxMetas == 2
MaxObjs == 2

Ref(id) == [t |-> "ref", id |-> id]

DefaultsMarker == Ref(1)

\* Meta(no_defaults): META_WV_DEFAULTS.copy() is a shallow copy, the marker
\* key of the new Meta refers to the dict of the defaults table
meta_new(no_defaults) ==
    IF no_defaults THEN Meta(TRUE, <<>>)
    ELSE [Meta(FALSE, <<>>) EXCEPT !.marker = DefaultsMarker]

\* the items with every reference replaced by the dict it refers to
Resolved(items, heap) ==
    [k \in DOMAIN items |->
        IF items[k].t = "ref" THEN Dict(heap[items[k].id]) ELSE items[k]]

MarkerEdits ==
    {[x \in {k} |-> List(<<<<0, 1>>>>)] : k \in {"marker_list_1", "marker_list_2"}}

\* meta.marker[key] = value: the accessor puts a new dict under "marker" when
\* the key is missing, and the edit is made in the dict the key refers to
marker_edit(items, heap, edit) ==
    IF "marker" \in DOMAIN items
    THEN [items |-> items,
          heap |-> [heap EXCEPT ![items.marker.id] = Update(@, edit)]]
    ELSE [items |-> Update(items, [marker |-> Ref(Len(heap) + 1)]),
          heap |-> Append(heap, edit)]

\* meta.marker = value: the key refers to the caller's dict
marker_set(items, heap, value) ==
    [items |-> Update(items, [marker |-> Ref(Len(heap) + 1)]),
     heap |-> Append(heap, value)]

InitMeta ==
    /\ wf = <<>>
    /\ file = <<<<>>>>
    /\ res = NoErr
    /\ req = [op |-> "none", target |-> 0]
    /\ pc = "run"

\* Meta(no_defaults=...), the metadata of one more segment
MetaNew ==
    /\ Len(wf) < MaxMetas
    /\ \E no_defaults \in BOOLEAN : wf' = Append(wf, meta_new(no_defaults))
    /\ req' = [op |-> "new", target |-> Len(wf) + 1]
    /\ UNCHANGED <<file, res, pc>>

\* wf[i].marker[key] = value
MetaMarkerEdit ==
    /\ \E i \in 1..Len(wf), edit \in MarkerEdits :
          LET r == marker_edit(wf[i], file, edit)
          IN  /\ Len(r.heap) <= MaxObjs
              /\ wf' = [wf EXCEPT ![i] = r.items]
              /\ file' = r.heap
              /\ req' = [op |-> "marker edit", target |-> i]
    /\ UNCHANGED <<res, pc>>

\* wf[i].marker = value
MetaMarkerSet ==
    /\ Len(file) < MaxObjs
    /\ \E i \in 1..Len(wf), value \in MarkerEdits \cup {<<>>} :
          LET r == marker_set(wf[i], file, value)
          IN  /\ wf' = [wf EXCEPT ![i] = r.items]
              /\ file' = r.heap
              /\ req' = [op |-> "marker set", target |-> i]
    /\ UNCHANGED <<res, pc>>

\* wf[i]["comment"] = value
MetaSetItem ==
    /\ \E i \in 1..Len(wf) :
          /\ wf' = [wf EXCEPT ![i] = Update(@, [comment |-> Str("edited")])]
          /\ req' = [op |-> "set item", target |-> i]
    /\ UNCHANGED <<file, res, pc>>

NextMeta == MetaNew \/ MetaMarkerEdit \/ MetaMarkerSet \/ MetaSetItem

SpecMeta == InitMeta /\ [][NextMeta]_vars

\* C18: an operation on the metadata of one segment, in-place edits of its
\* marker mapping included, leaves the metadata of every other segment as it
\* was, and a Meta constructed with defaults afterwards has an empty marker
\* mapping.
C18_MetaOwnedPerSegment ==
    [][/\ \A j \in 1..Len(wf) :
             j # req'.target => Resolved(wf'[j], file') = Resolved(wf[j], file)
       /\ Resolved(meta_new(FALSE), file').marker = Dict(<<>>)]_vars

----------------------------------------------------------------------------
(* File handles: utility/file_handling.py, and the order in which the       *)
(* codec operations enter them                                              *)

PathKinds == {"str", "Path"}
IOBaseKinds == {"file object", "BytesIO"}
StreamKinds == IOBaseKinds \cup {"TarFile"}

NotAPathError == "expected str, bytes or os.PathLike object"

\* _file_handle: an io.IOBase is yielded as it is, anything else goes to open()
file_handle(kind) ==
    IF kind \in IOBaseKinds THEN "yield"
    ELSE IF kind \in PathKinds THEN "open"
    ELSE NotAPathError

\* _file_handle_tar: a TarFile is yielded as it is, a BytesIO is wrapped by
\* tarfile.open(fileobj=...), anything else goes to tarfile.open() as a name
file_handle_tar(kind) ==
    IF kind = "TarFile" THEN "yield"
    ELSE IF kind = "BytesIO" THEN "wrap"
    ELSE IF kind \in PathKinds THEN "open"
    ELSE NotAPathError

Use(adapter, target) == [adapter |-> adapter, target |-> target]

\* the with statements of each operation, in order: the adapter and whether it
\* is given the caller's file or the path of a temporary file
HandleUses ==
    [wv_load |-> <<Use("file", "arg")>>,
     wv_load_in_chunks |-> <<Use("file", "arg")>>,
     wv_load_meta |-> <<Use("file", "arg")>>,
     wv_save |-> <<Use("file", "arg")>>,
     iqw_load |-> <<Use("file", "arg")>>,
     iqw_load_in_chunks |-> <<Use("file", "arg")>>,
     iqw_save |-> <<Use("file", "arg")>>,
     iqtar_load |-> <<Use("tar", "arg"), Use("file", "temp"),
                      Use("tar", "arg"), Use("file", "temp")>>,
     iqtar_load_in_chunks |-> <<Use("tar", "arg"), Use("file", "temp"),
                                Use("tar", "arg"), Use("file", "temp")>>,
     iqtar_load_meta |-> <<Use("tar", "arg"), Use("file", "temp")>>,
     iqtar_save |-> <<Use("file", "temp"), Use("file", "temp"), Use("tar", "arg")>>]

IqtarOps == {"iqtar_load", "iqtar_load_in_chunks", "iqtar_load_meta", "iqtar_save"}

\* what the caller passes: a path, or a stream that is open; a TarFile only
\* to the IQTAR operations
HandleCalls ==
    {[op |-> op, kind |-> k, step |-> 1] :
        op \in DOMAIN HandleUses, k \in PathKinds \cup IOBaseKinds}
    \cup {[op |-> op, kind |-> "TarFile", step |-> 1] : op \in IqtarOps}

InitHandles ==
    /\ req \in HandleCalls
    /\ wf = [kind |-> req.kind, open |-> req.kind \in StreamKinds]
    /\ file = <<>>
    /\ res = [err |-> NoErr, yielded |-> <<>>]
    /\ pc = "call"

CurrentUse == HandleUses[req.op][req.step]

\* the with statement is entered: the adapter yields the caller's stream, or
\* opens a handle of its own, or raises
HandleEnter ==
    /\ pc = "call"
    /\ LET kind == IF CurrentUse.target = "arg" THEN wf.kind ELSE "Path"
           how == IF CurrentUse.adapter = "tar"
                  THEN file_handle_tar(kind) ELSE file_handle(kind)
       IN  IF how = NotAPathError
           THEN /\ res' = [res EXCEPT !.err = NotAPathError]
                /\ pc' = "raised"
                /\ file' = file
           ELSE /\ res' = [res EXCEPT !.yielded = Append(@, how)]
                /\ pc' = "body"
                /\ file' = IF how = "yield" THEN file
                           ELSE Append(file, [from |-> CurrentUse.target,
                                              how |-> how, open |-> TRUE])
    /\ UNCHANGED <<wf, req>>

\* leaving the with statement closes the handle that entering it opened
HandleExit(handles, how) ==
    IF how = "yield" THEN handles
    ELSE [handles EXCEPT ![Len(handles)].open = FALSE]

\* the body of the with statement ends and the operation goes on or returns
BodyReturns ==
    /\ pc = "body"
    /\ file' = HandleExit(file, res.yielded[Len(res.yielded)])
    /\ IF req.step = Len(HandleUses[req.op])
       THEN pc' = "returned" /\ req' = req
       ELSE pc' = "call" /\ req' = [req EXCEPT !.step = @ + 1]
    /\ UNCHANGED <<wf, res>>

\* the body of the with statement raises
BodyRaises ==
    /\ pc = "body"
    /\ file' = HandleExit(file, res.yielded[Len(res.yielded)])
    /\ res' = [res EXCEPT !.err = "raised in the body"]
    /\ pc' = "raised"
    /\ UNCHANGED <<wf, req>>

NextHandles == HandleEnter \/ BodyReturns \/ BodyRaises

SpecHandles == InitHandles /\ [][NextHandles]_vars

\* C19: when a codec operation has ended, by return or by raise, every handle
\* it opened from a path is closed; a stream passed open has been used as it
\* is, no adapter having refused it, and is still open.
C19_HandlesReleasedStreamsKept ==
    pc \in {"returned", "raised"} =>
        /\ \A i \in 1..Len(file) : ~file[i].open
        /\ wf.kind \in StreamKinds =>
              /\ wf.open
              /\ res.err # NotAPathError

\* ---------------------------------------------------------------------
\* Indexed access to segment data and metadata on the facade
\* (utility/integer_indexedproperty.py, RsWaveform.meta / RsWaveform.data)
\* ---------------------------------------------------------------------

IntKeyError == "Just integer as keys allowed."
ListTypeError == "list indices must be integers or slices"
ListAttributeError == "'list' object has no attribute"

\* a key of wf.data[key] / wf.meta[key]: its Python type and its value
\* (a float in halves, a str by the number it spells, a bool as 0 / 1)
Key(t, v) == [t |-> t, v |-> v]

IsInstanceInt_Number(index) == index.t \in {"int", "bool", "float"}

\* isinstance(index, int): bool is a subclass of int
IsInstanceInt(index) == index.t \in {"int", "bool"}

\* _Trampoline.modindex
modindex(index) ==
    IF ~IsInstanceInt(index)
    THEN [err |-> IntKeyError, index |-> index]
    ELSE [err |-> NoErr, index |-> index]

\* _Trampoline.moduserindex: the index the user wrote, handed on to modindex
moduserindex(index) ==
    IF ~IsInstanceInt(index)
    THEN [err |-> IntKeyError, index |-> index]
    ELSE modindex(index)

\* self._parent_storage.storages[index]: the position in the list (1-based),
\* negative integers count from the end
list_getitem(storages, index) ==
    IF index.t = "slice" THEN [err |-> ListAttributeError, pos |-> 0]
    ELSE IF index.t \notin {"int", "bool"} THEN [err |-> ListTypeError, pos |-> 0]
    ELSE LET pos == IF index.v >= 0 THEN index.v + 1
                    ELSE Len(storages) + index.v + 1
         IN  IF pos \in 1..Len(storages)
             THEN [err |-> NoErr, pos |-> pos]
             ELSE [err |-> IndexError, pos |-> 0]

\* wf.meta[index] and wf.data[index]: the getter behind the trampoline
facade_getitem(storages, field, index) ==
    LET m == moduserindex(index)
        g == list_getitem(storages, m.index)
    IN  IF m.err # NoErr THEN [err |-> m.err, out |-> <<>>, storages |-> storages]
        ELSE IF g.err # NoErr
        THEN [err |-> g.err, out |-> <<>>, storages |-> storages]
        ELSE [err |-> NoErr, out |-> <<storages[g.pos][field]>>,
              storages |-> storages]

\* wf.meta[index] = value and wf.data[index] = value: meta_setter, data_setter
facade_setitem(storages, field, index, value) ==
    LET m == moduserindex(index)
        g == list_getitem(storages, m.index)
    IN  IF m.err # NoErr THEN [err |-> m.err, out |-> <<>>, storages |-> storages]
        ELSE IF g.err # NoErr
        THEN [err |-> g.err, out |-> <<>>, storages |-> storages]
        ELSE [err |-> NoErr, out |-> <<>>,
              storages |-> [storages EXCEPT ![g.pos][field] = value]]

\* the keys a caller writes: integers in and out of range, True / False,
\* 0.0, 0.5, 1.0, 1.5, "0", "1", None and the slice [0:]
FacadeKeys ==
    {Key("int", v) : v \in (-MaxSegs - 1)..MaxSegs}
    \cup {Key("bool", v) : v \in {0, 1}}
    \cup {Key("float", v) : v \in 0..3}
    \cup {Key("str", v) : v \in {0, 1}}
    \cup {Key("None", 0), Key("slice", 0)}

FacadeData == {IqtarSegment(1, 7), <<>>}
FacadeMetas == {Meta(TRUE, <<>>), IqtarMeta(200, 1)}

\* the waveform behind the facade: the default of RsWaveform() or a loaded one
FacadeWaveforms == {ParentStorage(1, FALSE).storages} \cup PsWaveforms

InitFacade ==
    /\ wf \in FacadeWaveforms
    /\ file = wf
    /\ res = [err |-> NoErr, out |-> <<>>]
    /\ req = [op |-> "none", field |-> "none", key |-> Key("int", 0)]
    /\ pc = "object"

Access(op, field, key, r) ==
    /\ file' = wf
    /\ wf' = r.storages
    /\ res' = [err |-> r.err, out |-> r.out]
    /\ req' = [op |-> op, field |-> field, key |-> key]
    /\ pc' = "accessed"

\* wf.meta[key]
FacadeGetMeta ==
    \E key \in FacadeKeys :
        Access("get", "meta", key, facade_getitem(wf, "meta", key))

\* wf.meta[key] = meta
FacadeSetMeta ==
    \E key \in FacadeKeys, value \in FacadeMetas :
        Access("set", "meta", key, facade_setitem(wf, "meta", key, value))

\* wf.data[key]
FacadeGetData ==
    \E key \in FacadeKeys :
        Access("get", "data", key, facade_getitem(wf, "data", key))

\* wf.data[key] = data
FacadeSetData ==
    \E key \in FacadeKeys, value \in FacadeData :
        Access("set", "data", key, facade_setitem(wf, "data", key, value))

NextFacade == FacadeGetMeta \/ FacadeSetMeta \/ FacadeGetData \/ FacadeSetData

SpecFacade == InitFacade /\ [][NextFacade]_vars

\* a key that is not an integer: a float (integer-valued or not), a string,
\* None, a slice
NotAnInteger(key) == key.t \in {"float", "str", "None", "slice"}

\* C21: indexed access to segment data or metadata on the facade, for reading
\* and for writing, with a key that is not an integer raises ValueError
\* 'Just integer as keys allowed.' and leaves every segment unchanged.
C21_NonIntegerKeyRejected ==
    (pc = "accessed" /\ NotAnInteger(req.key))
        => /\ res.err = IntKeyError
           /\ res.out = <<>>
           /\ wf = file

\* a write of segment data with the key 1.5 on a waveform of two segments
C21_Witness ==
    /\ pc = "accessed"
    /\ req.op = "set" /\ req.field = "data"
    /\ req.key = Key("float", 3)
    /\ Len(file) = 2
    /\ res.err = IntKeyError

\* a read of metadata with the key "0" after an earlier write went through
C21_WitnessRead ==
    /\ pc = "accessed"
    /\ req.op = "get" /\ req.field = "meta"
    /\ req.key.t = "str"
    /\ res.err = IntKeyError
    /\ \E i \in 1..Len(wf) : wf[i].meta \in FacadeMetas

----------------------------------------------------------------------------
(* Multi-segment save without a clock *)

\* the metadata has no clock: the key is absent or holds None
ClockMissing(meta) == Get(meta, "clock", NoneV).t = "None"

\* the errors of the writers whose message has the word 'Clock'
ClockErrors == {ClockError}

\* C22: a WV save of two or more segments fails with an error whose message
\* contains the word 'Clock' when the metadata of a segment has no clock, and
\* writes no CLOCK or MWV_SEGMENT_CLOCK tag standing for the missing clock.
C22_MwvMissingClockRejected ==
    (pc # "save" /\ Len(wf) >= 2 /\ \E i \in 1..Len(wf) : ClockMissing(wf[i].meta))
        => /\ pc = "save failed"
           /\ file.err \in ClockErrors
           /\ \A j \in 1..Len(file.toks) :
                 file.toks[j].key \notin {"CLOCK", "MWV_SEGMENT_CLOCK"}

----------------------------------------------------------------------------
(* Load of a multi-segment file: the metadata of each segment *)

MwvClocks == {Num(100), Num(200)}
MwvLevels == {[rms |-> Num(1), peak |-> Num(2)], [rms |-> Num(3), peak |-> Num(4)],
              [rms |-> NoneV, peak |-> NoneV]}
MwvComments == {Str("first"), Str("second"), Str("seg-1"), NoneV}

\* a segment of one sample with a clock, levels and a comment of its own
MwvStorage(c, l, t) ==
    Storage(Ramp(1, 0), Update(Meta(FALSE, <<>>),
                               [clock |-> c, rms |-> l.rms, peak |-> l.peak,
                                comment |-> t]))

MwvWaveforms ==
    UNION {{[i \in 1..n |-> MwvStorage(c[i], l[i], t[i])] :
               c \in [1..n -> MwvClocks], l \in [1..n -> MwvLevels],
               t \in [1..n -> {x \in MwvComments : x # Str("second")}]
                        \cup {[i \in 1..n |-> IF i = 1 THEN Str("first")
                                               ELSE Str("second")]}} :
           n \in 2..MaxSegs}

\* tags of the single-segment format and a comment tag past the segment
\* count, as a file of another writer may carry them in front of its header
MwvExtraTags(n) ==
    {<<>>,
     <<Tag("COMMENT", Str("file")), Tag("LEVEL OFFS", List(<<Num(8), Num(9)>>))>>,
     <<Tag(SegmentCommentKey[n + 1], Str("extra"))>>}

InitMwv ==
    /\ wf \in MwvWaveforms
    /\ file = NoFile
    /\ res = NoRes
    /\ req = NoReq
    /\ pc = "save"

\* Save.save of the segments, the file then taken with or without extra tags
MwvSave ==
    /\ pc = "save"
    /\ \E rand_empty \in EmptyLens, extra \in MwvExtraTags(Len(wf)) :
          LET st == save(wf, DefaultScale, rand_empty)
          IN  /\ file' = [toks |-> extra \o st.toks, err |-> st.err,
                          patch |-> IF extra = <<>> THEN "none" ELSE "extra"]
              /\ pc' = IF st.err = NoErr THEN "saved" ELSE "save failed"
    /\ UNCHANGED <<wf, res, req>>

NextMwv == MwvSave \/ WvLoad

SpecMwv == InitMwv /\ [][NextMwv]_vars

\* the value of the tag key in the file
FileTag(key) == file.toks[FirstTag(file.toks, {key})].val
HasFileTag(key) == FirstTag(file.toks, {key}) # 0

\* C23: on a load of a file with MWV_SEGMENT_COUNT = n > 1 the metadata of
\* segment i has clock equal to the i-th entry of MWV_SEGMENT_CLOCK, rms and
\* peak equal to the i-th pair of MWV_SEGMENT_LEVEL_OFFS, comment equal to the
\* value of MWV_SEGMENTi_COMMENT, and no mwv_segmentj_comment key for any j.
C23_MwvSegmentMeta ==
    (Loaded /\ HasFileTag("MWV_SEGMENT_COUNT") /\ FileTag("MWV_SEGMENT_COUNT").v > 1)
        => /\ Len(res.storages) = FileTag("MWV_SEGMENT_COUNT").v
           /\ \A i \in 1..Len(res.storages) :
                LET meta == res.storages[i].meta
                    clocks == FileTag("MWV_SEGMENT_CLOCK").v
                    levels == FileTag("MWV_SEGMENT_LEVEL_OFFS").v
                IN  /\ meta["clock"] = clocks[i]
                    /\ levels[2 * i - 1].t = "num" => meta["rms"] = levels[2 * i - 1]
                    /\ levels[2 * i].t = "num" => meta["peak"] = levels[2 * i]
                    /\ meta["comment"] =
                           (IF FileTag(SegmentCommentKey[i]).t = "None"
                            THEN Str("None") ELSE FileTag(SegmentCommentKey[i]))
                    /\ DOMAIN meta \cap SegmentCommentNames = {}

\* the same with every segment comment made of word characters and every
\* level a number
C23_WordCommentsOnly ==
    (\A i \in 1..Len(wf) : /\ WordText(wf[i].meta["comment"])
                           /\ wf[i].meta["rms"].t = "num") => C23_MwvSegmentMeta

----------------------------------------------------------------------------
(* The control list as the three loads of a single-segment file return it *)

\* Load.load_meta: the tags before the payload tag, the control list among
\* them, on a storage with no samples
load_meta(toks) ==
    LET header_content == HeaderToks(toks)
        tags0 == split_data_via_tags_meta(header_content)
        samples == tags0["samples"].v
        cl == extract_binary_tags(header_content, FileLen(header_content),
                                  "CONTROL LIST WIDTH4", FALSE)
        tags1 == WithControlList(tags0, cl, samples)
        meta == extract_meta(tags1, 0)
    IN  IF "samples" \notin DOMAIN tags0 THEN Failed(KeyErrorSamples)
        ELSE IF cl.err # NoErr THEN Failed(cl.err)
        ELSE IF meta.err # NoErr THEN Failed(meta.err)
        ELSE [err |-> NoErr,
              storages |-> <<[data |-> <<>>, meta |-> Meta(FALSE, meta.meta)]>>]

\* one segment of 1..MaxLen + 1 samples, with and without a control list
ControlWaveforms ==
    UNION {{<<Storage(Ramp(n, 0), DefaultMeta(1))>>,
            <<Storage(Ramp(n, 0), ControlMeta(Checker(n)))>>,
            <<Storage(Ramp(n, 0), ControlMeta(Brace(n)))>>} :
           n \in 1..(MaxLen + 1)}

NotRun == [err |-> "not run", storages |-> <<>>]

InitControl ==
    /\ wf \in ControlWaveforms
    /\ file = NoFile
    /\ res = [full |-> NotRun, meta |-> NotRun, chunk |-> NotRun]
    /\ req = NoReq
    /\ pc = "save"

\* Save.save(file, datas)
ControlSave ==
    /\ pc = "save"
    /\ \E rand_empty \in EmptyLens :
          LET st == save(wf, DefaultScale, rand_empty)
          IN  /\ file' = [toks |-> st.toks, err |-> st.err, patch |-> "none"]
              /\ pc' = IF st.err = NoErr THEN "saved" ELSE "save failed"
    /\ UNCHANGED <<wf, res, req>>

\* Load.load(file)
ControlLoad ==
    /\ pc = "saved" /\ res.full = NotRun
    /\ res' = [res EXCEPT !.full = load(file.toks)]
    /\ UNCHANGED <<wf, file, req, pc>>

\* Load.load_meta(file)
ControlLoadMeta ==
    /\ pc = "saved" /\ res.meta = NotRun
    /\ res' = [res EXCEPT !.meta = load_meta(file.toks)]
    /\ UNCHANGED <<wf, file, req, pc>>

\* Load.load_in_chunks(file, samples, offset) with a window inside the file
ControlLoadInChunks ==
    /\ pc = "saved" /\ res.chunk = NotRun
    /\ \E n \in 1..Len(wf[1].data), o \in 0..Len(wf[1].data) :
          /\ n + o <= Len(wf[1].data)
          /\ req' = [samples |-> n, offset |-> o]
          /\ res' = [res EXCEPT !.chunk = load_in_chunks(file.toks, n, o)]
    /\ UNCHANGED <<wf, file, pc>>

NextControl == ControlSave \/ ControlLoad \/ ControlLoadMeta \/ ControlLoadInChunks

SpecControl == InitControl /\ [][NextControl]_vars

HasControlListTag == FirstTag(file.toks, {"CONTROL LIST WIDTH4"}) # 0

ControlListOf(r) == r.storages[1].meta["control_list"]

\* C24: for a single-segment file with a CONTROL LIST WIDTH4 tag in its
\* header, load, load_meta and load_in_chunks return metadata with the same
\* control_list, a matrix of 4 rows unpacked from the bytes of the tag.
C24_SameControlList ==
    (/\ pc = "saved" /\ HasControlListTag
     /\ res.full # NotRun /\ res.meta # NotRun /\ res.chunk # NotRun)
        => /\ res.full.err = NoErr /\ res.meta.err = NoErr /\ res.chunk.err = NoErr
           /\ ControlListOf(res.full).t = "mat"
           /\ NRows(ControlListOf(res.full).v) = 4
           /\ ControlListOf(res.meta) = ControlListOf(res.full)
           /\ ControlListOf(res.chunk) = ControlListOf(res.full)

\* the same of load and load_meta alone
C24_FullAndMetaAgree ==
    (pc = "saved" /\ HasControlListTag /\ res.full # NotRun /\ res.meta # NotRun)
        => /\ res.full.err = NoErr /\ res.meta.err = NoErr
           /\ ControlListOf(res.full).t = "mat"
           /\ NRows(ControlListOf(res.full).v) = 4
           /\ ControlListOf(res.meta) = ControlListOf(res.full)

----------------------------------------------------------------------------
(* The header of a single-segment file: optional tags, markers, tag order *)

\* a marker entry [sample_index, value], written "sample_index:value"
Entry(index, value) == [t |-> "entry", v |-> <<index, value>>]

MarkerList(key, entries) == [key |-> key, entries |-> entries]

\* marker mappings: empty, in ascending and in other orders, one and two lists
HeaderMarkers ==
    {<<>>,
     <<MarkerList("marker_list_1", <<Entry(0, 1), Entry(32, 0)>>)>>,
     <<MarkerList("marker_list_1", <<Entry(32, 0), Entry(0, 1)>>)>>,
     <<MarkerList("marker_list_2", <<Entry(5, 1)>>),
       MarkerList("marker_list_1", <<Entry(63, 0), Entry(0, 1), Entry(32, 0)>>)>>}

HeaderClocks == {<<>>, [clock |-> NoneV], [clock |-> Num(100)]}
HeaderReflevels == {NoneV, Num(0), Num(-20)}
HeaderControlLengths == {NoneV, Num(0), Num(2)}

HeaderMeta(c, r, cl, withList, m, e, n) ==
    Update(Update(Pop(Meta(FALSE, <<>>), "clock"), c),
           [reflevel |-> r, control_length |-> cl,
            control_list |-> IF withList THEN Mat(Checker(n)) ELSE NoneV,
            marker |-> Dict(m), encryption_flag |-> Bool(e)])

HeaderWaveforms ==
    {<<Storage(Ramp(n, 0), HeaderMeta(c, r, cl, withList, m, e, n))>> :
        n \in 1..MaxLen, c \in HeaderClocks, r \in HeaderReflevels,
        cl \in HeaderControlLengths, withList \in BOOLEAN,
        m \in HeaderMarkers, e \in BOOLEAN}

\* what the file is saved to: a new BytesIO, a path of no file, a path of a
\* file that holds an earlier save
OldContent == <<Tag("TYPE", Str("SMU-WV")), Tag("CLOCK", Num(1)), Tag("SAMPLES", Num(0))>>

HeaderDests ==
    {[dest |-> "BytesIO", old |-> <<>>], [dest |-> "str", old |-> <<>>],
     [dest |-> "Path", old |-> OldContent]}

InitHeader ==
    /\ wf \in HeaderWaveforms
    /\ req \in HeaderDests
    /\ file = [toks |-> req.old, err |-> NoErr, patch |-> "none"]
    /\ res = NoRes
    /\ pc = "save"

\* Save.save(file, datas): write_file_handle opens a path with "wb+", which
\* empties it, and yields a stream as it is; the writers then write in turn
HeaderSave ==
    /\ pc = "save"
    /\ \E rand_empty \in EmptyLens :
          LET st == save(wf, DefaultScale, rand_empty)
              opened == IF file_handle(req.dest) = "open" THEN <<>> ELSE file.toks
          IN  /\ file' = [toks |-> opened \o st.toks, err |-> st.err,
                          patch |-> "none"]
              /\ pc' = IF st.err = NoErr THEN "saved" ELSE "save failed"
    /\ UNCHANGED <<wf, res, req>>

NextHeader == HeaderSave

SpecHeader == InitHeader /\ [][NextHeader]_vars

FileKeys == [i \in 1..Len(file.toks) |-> file.toks[i].key]

MarkerTagKeys == {MarkerTagKey[k] : k \in MarkerListKeys}

\* C25: every MARKER LIST tag written by WV save lists its entries in
\* ascending sample index, whatever order they have in the marker mapping.
C25_MarkerEntriesAscending ==
    pc = "saved" =>
        \A i \in 1..Len(file.toks) :
            file.toks[i].key \in MarkerTagKeys =>
                LET entries == file.toks[i].val.v
                IN  \A j \in 1..(Len(entries) - 1) :
                        entries[j].v[1] <= entries[j + 1].v[1]

HasKey(key) == \E i \in 1..Len(file.toks) : file.toks[i].key = key

\* the metadata holds a value under key: the key is there and is not None
HoldsValue(meta, key) == Get(meta, key, NoneV).t # "None"

\* C26: WV save writes the REFLEVEL tag exactly when the segment metadata
\* holds a reflevel value and the CONTROL LENGTH tag exactly when it holds a
\* control_length value, for every numeric value of the field.
C26_OptionalTagsByPresence ==
    pc = "saved" =>
        /\ HasKey("REFLEVEL") <=> HoldsValue(wf[1].meta, "reflevel")
        /\ HasKey("CONTROL LENGTH") <=> HoldsValue(wf[1].meta, "control_length")

\* the same for values other than zero
C26_NonZeroOnly ==
    (/\ Get(wf[1].meta, "reflevel", NoneV) # Num(0)
     /\ Get(wf[1].meta, "control_length", NoneV) # Num(0))
        => C26_OptionalTagsByPresence

\* the place of a tag in the order of the single-segment header
TagRank(key) ==
    CASE key = "TYPE" -> 1
      [] key = "COPYRIGHT" -> 2
      [] key = "COMMENT" -> 3
      [] key = "LEVEL OFFS" -> 4
      [] key = "DATE" -> 5
      [] key = "CLOCK" -> 6
      [] key = "SAMPLES" -> 7
      [] key = "REFLEVEL" -> 8
      [] key = "CONTROL LENGTH" -> 9
      [] key = "CONTROL LIST WIDTH4" -> 10
      [] key \in MarkerTagKeys -> 11
      [] key = "EMPTYTAG" -> 12
      [] key \in PayloadKeys -> 13
      [] OTHER -> 0

MandatoryKeys ==
    {"TYPE", "COPYRIGHT", "COMMENT", "LEVEL OFFS", "DATE", "CLOCK", "SAMPLES"}

\* C27: every successful single-segment WV save writes its tags in the order
\* TYPE, COPYRIGHT, COMMENT, LEVEL OFFS, DATE, CLOCK, SAMPLES, the optional
\* REFLEVEL, CONTROL LENGTH, CONTROL LIST WIDTH4 and MARKER LIST tags,
\* EMPTYTAG, payload tag: exactly one EMPTYTAG is written, it immediately
\* precedes the payload tag, and the closing brace of the payload tag is the
\* last byte written.
C27_TagOrder ==
    (pc = "saved" /\ Len(wf) = 1) =>
        LET n == Len(file.toks)
        IN  /\ n >= 9
            /\ \A i \in 1..7 : TagRank(file.toks[i].key) = i
            /\ \A i \in 1..n : TagRank(file.toks[i].key) # 0
            /\ \A i \in 1..(n - 1) :
                  \/ TagRank(file.toks[i].key) < TagRank(file.toks[i + 1].key)
                  \/ /\ file.toks[i].key \in MarkerTagKeys
                     /\ file.toks[i + 1].key \in MarkerTagKeys
                     /\ file.toks[i].key # file.toks[i + 1].key
            /\ Cardinality({i \in 1..n : file.toks[i].key = "EMPTYTAG"}) = 1
            /\ file.toks[n - 1].key = "EMPTYTAG"
            /\ file.toks[n].key \in PayloadKeys
            /\ Cardinality({i \in 1..n : file.toks[i].key \in PayloadKeys}) = 1
            /\ LET bytes == RenderAll(file.toks)
               IN  bytes[Len(bytes)] = BraceClose
            /\ file.toks[n].val.rest[Len(file.toks[n].val.rest)] = BraceClose

\* a save with every optional tag and two marker lists has been written
C27_Witness ==
    /\ pc = "saved" /\ Len(wf) = 1
    /\ HasKey("REFLEVEL") /\ HasKey("CONTROL LENGTH")
    /\ HasKey("CONTROL LIST WIDTH4")
    /\ HasKey("MARKER LIST 1") /\ HasKey("MARKER LIST 2")
    /\ HasKey("WWAVEFORM")
    /\ Len(file.toks) = 14

\* C30: when a single-segment WV save fails because the clock is missing, the
\* error is raised after the TYPE, COPYRIGHT, COMMENT, LEVEL OFFS and DATE
\* tags have been written: the destination, a stream or a path that was
\* opened and emptied, holds that header prefix and no CLOCK, SAMPLES or
\* payload tag.
C30_MissingClockLeavesPrefix ==
    (pc = "save failed" /\ Len(wf) = 1 /\ file.err = ClockError) =>
        /\ FileKeys = <<"TYPE", "COPYRIGHT", "COMMENT", "LEVEL OFFS", "DATE">>
        /\ ~HasKey("CLOCK") /\ ~HasKey("SAMPLES")
        /\ \A k \in PayloadKeys : ~HasKey(k)

\* the save to the path of an earlier file has failed on a clock of None
C30_Witness ==
    /\ pc = "save failed" /\ file.err = ClockError
    /\ req.dest = "Path" /\ req.old # <<>>
    /\ "clock" \in DOMAIN wf[1].meta
    /\ Len(file.toks) = 5

----------------------------------------------------------------------------
(* IQTAR: the center frequency through save and load *)

\* the center frequency of the metadata: the key popped, 0, the default and
\* others
CenterFrequencies == {NoneV, Num(0), Num(5), Num(2000), Num(1000000000)}

CenterMeta(c, cf) ==
    IF cf = NoneV THEN Pop(IqtarMeta(c, 1), "center_frequency")
    ELSE Update(IqtarMeta(c, 1), [center_frequency |-> cf])

CenterWaveforms ==
    {<<Storage(IqtarSegment(len, 0), CenterMeta(c, cf))>> :
        len \in 1..MaxLen, c \in {100, 200}, cf \in CenterFrequencies}

InitCenter ==
    /\ wf \in CenterWaveforms
    /\ file = IqtarNoFile
    /\ res = IqtarNoRes
    /\ req = [scale |-> 1, samples |-> 0, offset |-> 0]
    /\ pc = "save"

NextCenter == IqtarSave \/ IqtarLoad \/ IqtarLoadMeta

SpecCenter == InitCenter /\ [][NextCenter]_vars

SavedCenterFrequency == Get(wf[1].meta, "center_frequency", Num(0))

\* C28: a non-zero center_frequency in the metadata of a waveform saved to
\* IQTAR is recovered by IQTAR load: the loaded metadata holds the same value
\* under the same key center_frequency.
C28_CenterFrequencyRoundTrip ==
    (pc = "loaded" /\ res.err = NoErr /\ SavedCenterFrequency # Num(0))
        => \A i \in 1..Len(res.storages) :
              /\ "center_frequency" \in DOMAIN res.storages[i].meta
              /\ res.storages[i].meta["center_frequency"] = SavedCenterFrequency

\* the same for the default of the metadata
C28_DefaultOnly ==
    SavedCenterFrequency = META_IQTAR_DEFAULTS.center_frequency
        => C28_CenterFrequencyRoundTrip

----------------------------------------------------------------------------
(* The objects a save works on.  A waveform is handed over by reference: a   *)
(* heap is the sequence of the ndarray and Meta objects alive, a reference   *)
(* an index into it, a Storage the references of its attributes data and     *)
(* meta.  A save allocates objects and writes into objects.                  *)

\* a new object
Alloc(h, obj) == [heap |-> Append(h, obj), ref |-> Len(h) + 1]

\* a write into the object behind a reference
Store(h, ref, obj) == [h EXCEPT ![ref] = obj]

\* storages as objects: data and meta of segment i at 2i - 1 and 2i
Objects(storages) ==
    [heap |-> Flatten([i \in 1..Len(storages) |->
                          <<storages[i].data, storages[i].meta>>]),
     storages |-> [i \in 1..Len(storages) |->
                      [data |-> 2 * i - 1, meta |-> 2 * i]]]

\* the values the references lead to
Deref(h, storages) ==
    [i \in 1..Len(storages) |->
        Storage(h[storages[i].data], h[storages[i].meta])]

\* np.round(scale * np.real(data.data)) or the same of np.imag, then the
\* clamp: the view shares the buffer of data.data, the product and the
\* rounding are new arrays, the clamp writes into the rounded array
obj_round_clamp(h, data, scale, part) ==
    LET view == data
        n == Len(h[view])
        prod == Alloc(h, [k \in 1..n |->
                             h[view][k][part] * (scale \div DefaultScale)])
        rnd == Alloc(prod.heap,
                     [k \in 1..n |->
                         RoundHalfEven(prod.heap[prod.ref][k], SubSteps)])
        hi == Store(rnd.heap, rnd.ref,
                    [k \in 1..n |->
                        IF rnd.heap[rnd.ref][k] > INT16_MAX THEN INT16_MAX
                        ELSE rnd.heap[rnd.ref][k]])
        lo == Store(hi, rnd.ref,
                    [k \in 1..n |->
                        IF hi[rnd.ref][k] < INT16_MIN THEN INT16_MIN
                        ELSE hi[rnd.ref][k]])
    IN  [heap |-> lo, ref |-> rnd.ref]

\* Save._prepare_data on the objects: int16_samples is a new array, filled at
\* the even places from real and at the odd places from imag
obj_prepare_data(h, data, scale) ==
    LET n == Len(h[data])
        z == Alloc(h, [j \in 1..(2 * n) |-> 0])
        real == obj_round_clamp(z.heap, data, scale, "re")
        h1 == Store(real.heap, z.ref,
                    [j \in 1..(2 * n) |->
                        IF j % 2 = 1 THEN real.heap[real.ref][(j + 1) \div 2]
                        ELSE real.heap[z.ref][j]])
        imag == obj_round_clamp(h1, data, scale, "im")
        h2 == Store(imag.heap, z.ref,
                    [j \in 1..(2 * n) |->
                        IF j % 2 = 0 THEN imag.heap[imag.ref][j \div 2]
                        ELSE imag.heap[z.ref][j]])
    IN  [heap |-> h2, ref |-> z.ref]

\* the loop of _write_mwv: tmp_storage.data = np.append(d.data,
\* tmp_storage.data), a new array at every turn
RECURSIVE obj_append(_, _, _, _)
obj_append(h, storages, i, tmp) ==
    IF i > Len(storages) THEN [heap |-> h, ref |-> tmp]
    ELSE LET a == Alloc(h, h[storages[i].data] \o h[tmp])
         IN  obj_append(a.heap, storages, i + 1, a.ref)

\* tmp_storage with its meta attribute bound to the Meta of segment 0
mwv_tmp_storage_SharedMeta(h, storages) ==
    LET d0 == Alloc(h, [k \in 1..ZerosLen |-> Complex(0, 0)])
        e == Alloc(d0.heap, <<>>)
        cat == obj_append(e.heap, storages, 1, e.ref)
        meta == storages[1].meta
        h2 == Store(cat.heap, meta,
                    [cat.heap[meta] EXCEPT !["type"] = Str("SMU-MWV")])
    IN  [heap |-> h2, data |-> cat.ref, meta |-> meta]

\* the head of _write_mwv: tmp_storage = Storage() with a buffer and a Meta of
\* its own, the buffers appended, the entries of the Meta of segment 0 copied
\* into the Meta of tmp_storage and its type set
mwv_tmp_storage(h, storages) ==
    LET d0 == Alloc(h, [k \in 1..ZerosLen |-> Complex(0, 0)])
        m0 == Alloc(d0.heap, Meta(FALSE, <<>>))
        e == Alloc(m0.heap, <<>>)
        cat == obj_append(e.heap, storages, 1, e.ref)
        h1 == Store(cat.heap, m0.ref,
                    Update(cat.heap[m0.ref], cat.heap[storages[1].meta]))
        h2 == Store(h1, m0.ref,
                    [h1[m0.ref] EXCEPT !["type"] = Str("SMU-MWV")])
    IN  [heap |-> h2, data |-> cat.ref, meta |-> m0.ref]

\* Save.save of the WV format on the objects: the int16 array of segment 0,
\* or of tmp_storage when there are more segments; the writers only read
obj_wv_save(h, storages, scale) ==
    IF Len(storages) = 1
    THEN obj_prepare_data(h, storages[1].data, scale)
    ELSE LET tmp_storage == mwv_tmp_storage(h, storages)
         IN  obj_prepare_data(tmp_storage.heap, tmp_storage.data, scale)

\* Save._write of the IQW format on the objects: for every storage the scaled
\* samples and the interleaved values are new arrays
RECURSIVE obj_iqw_write(_, _, _, _)
obj_iqw_write(h, storages, scale, i) ==
    IF i > Len(storages) THEN [heap |-> h, bytes |-> <<>>]
    ELSE LET scaled_iq_data ==
                 Alloc(h, iqw_scale_data(h[storages[i].data], scale))
             iq_data ==
                 Alloc(scaled_iq_data.heap,
                       iqw_prepare_data(
                           scaled_iq_data.heap[scaled_iq_data.ref]))
             rest == obj_iqw_write(iq_data.heap, storages, scale, i + 1)
         IN  [heap |-> rest.heap,
              bytes |-> iqw_blocks(iq_data.heap[iq_data.ref], chunk_size)
                            \o rest.bytes]

----------------------------------------------------------------------------
(* Save of a waveform held by the caller, by any of the codecs *)

\* segments with and without a clock, and samples past the int16 range
FrameWaveforms == MetaWaveforms \cup QuantWaveforms

InitFrame ==
    /\ wf \in {Objects(storages) : storages \in FrameWaveforms}
    /\ file = NoFile
    /\ res = NoRes
    /\ req = [codec |-> "none", scale |-> 0, given |-> wf]
    /\ pc = "save"

\* wv.Save.save(file, datas) with the default scale
FrameWvSave ==
    /\ pc = "save"
    /\ \E rand_empty \in EmptyLens :
          LET st == save(Deref(wf.heap, wf.storages), DefaultScale, rand_empty)
              o == obj_wv_save(wf.heap, wf.storages, DefaultScale)
          IN  /\ wf' = [wf EXCEPT !.heap = o.heap]
              /\ file' = [toks |-> st.toks, err |-> st.err, patch |-> "none"]
              /\ pc' = IF st.err = NoErr THEN "saved" ELSE "save failed"
    /\ req' = [req EXCEPT !.codec = "wv", !.scale = DefaultScale]
    /\ UNCHANGED res

\* iqw.Save.save(file, datas, scale)
FrameIqwSave ==
    /\ pc = "save"
    /\ \E scale \in IqwScales :
          LET o == obj_iqw_write(wf.heap, wf.storages, scale, 1)
          IN  /\ wf' = [wf EXCEPT !.heap = o.heap]
              /\ file' = [bytes |-> o.bytes, nread |-> 0]
              /\ req' = [req EXCEPT !.codec = "iqw", !.scale = scale]
    /\ pc' = "saved"
    /\ UNCHANGED res

\* iqtar.Save.save(file, datas, scale): the payload by the IQW save, then the
\* XML, whose writers only read
FrameIqtarSave ==
    /\ pc = "save"
    /\ \E scale \in IqwScales :
          LET o == obj_iqw_write(wf.heap, wf.storages, scale, 1)
              xml == iqtar_write_xml(Deref(o.heap, wf.storages), PayloadName)
          IN  /\ wf' = [wf EXCEPT !.heap = o.heap]
              /\ file' = [xml |-> IF xml.err = NoErr THEN xml.toks ELSE <<>>,
                          payload |-> IF xml.err = NoErr THEN o.bytes ELSE <<>>,
                          err |-> xml.err, patch |-> "none"]
              /\ req' = [req EXCEPT !.codec = "iqtar", !.scale = scale]
              /\ pc' = IF xml.err = NoErr THEN "saved" ELSE "save failed"
    /\ UNCHANGED res

NextFrame == FrameWvSave \/ FrameIqwSave \/ FrameIqtarSave

SpecFrame == InitFrame /\ [][NextFrame]_vars

\* the waveform as the caller sees it after the call
Given == Deref(req.given.heap, req.given.storages)

\* C29: save of any codec (WV single-segment, WV multi-segment, IQW, IQTAR)
\* leaves the waveform it is given unchanged, whether it succeeds or fails:
\* the segments are the same objects in the same order, and every sample
\* buffer and every Meta of the waveform holds after the call what it held
\* before, the type of segment 0 on a multi-segment WV save included.
C29_SaveLeavesWaveform ==
    pc # "save"
        => /\ wf.storages = req.given.storages
           /\ \A ref \in 1..Len(req.given.heap) :
                 wf.heap[ref] = req.given.heap[ref]

\* a multi-segment WV save that has built its tmp_storage and succeeded
C29_Witness ==
    /\ pc = "saved"
    /\ req.codec = "wv"
    /\ Len(wf.storages) > 1
    /\ Len(wf.heap) > Len(req.given.heap)
    /\ Get(Given[1].meta, "type", NoneV) # Str("SMU-MWV")

\* a save that failed after it had made its arrays
C29_WitnessFailed ==
    /\ pc = "save failed"
    /\ Len(wf.heap) > Len(req.given.heap)

\* the bytes written from the objects are the bytes of the IQW save
FrameBytesAgree ==
    (pc # "save" /\ req.codec = "iqw")
        => file.bytes = iqw_write(Given, req.scale)

====
